---- MODULE Spec2Model ----
(***************************************************************************)
(* Query/correlation layer of the Zero CRM MCP server: filter              *)
(* normalisation (services/api.ts), the calendar-event list handler with   *)
(* its auto-pagination, relation strategy and deduplication                *)
(* (tools/calendar-events.ts), the reference cache and enrichment lookups  *)
(* (services/api.ts) and the correlation of activity sources with deals    *)
(* (tools/active-deals.ts).                                                *)
(***************************************************************************)
EXTENDS Integers, Sequences, FiniteSets, TLC

VARIABLES
    bqParams,       \* buildQueryParams: the ListParams argument
    bqQuery,        \* buildQueryParams: the returned query object, JUndef before the call
    faArgs,         \* zero_list_calendar_events: the handler's args (fetchAll: true)
    faPc,           \* "idle", "awaiting" (a page request is in flight), "done", "error"
    faQuery,        \* the query of the page request in flight
    allEvents,      \* fetchAll: the accumulated events (remote record numbers)
    currentOffset,  \* fetchAll: the offset of the next page request
    hasMore,        \* fetchAll: the loop flag
    hitCap,         \* fetchAll: the truncation flag rendered as the truncation note
    faServed,       \* the number of records the remote has returned to this call
    faLog,          \* the first MaxLogged page requests (queries), in order
    faResponses,    \* the first MaxLogged page responses [n, total], in order
    faBit,          \* alternating bit of the page request in flight
    heap,           \* the event objects, by reference (index)
    dIn,            \* deduplicateCalendarEvents: the events argument (references)
    dGiven,         \* the field values of the argument's events when the call was made
    dRes,           \* the result { events, duplicatesRemoved } of the call on dIn
    dFirst,         \* the field values of dRes.events when that call returned
    dRes2,          \* the result of the call on dRes.events
    hArgs,          \* zero_list_calendar_events: the handler's args
    hPc,            \* "idle", "awaitEvents", "awaitIncludes", "done"
    hWhere,         \* the effective filter (where, after the default startTime)
    hFallback,      \* useIncludeFallback
    hFields,        \* the fields of the base query
    hQuery,         \* the query of the latest base request
    hEvents,        \* events / allEvents: the fetched events (references)
    hOffset,        \* currentOffset of the fetchAll loop
    hHitCap,        \* hitCap of the fetchAll path
    hTotal,         \* response.data.total of the last base response
    hPending,       \* the relations whose bulk lookup is in flight
    hLookups,       \* the bulk lookup requests, in order: [path, query]
    hSettled,       \* the lookups that have settled: [rel, ok, found]
    hResult,        \* the handler's result, JUndef until it returns
    aArgs,          \* zero_find_active_deals: the handler's args
    aPc,            \* "idle", "awaitSources", "awaitDeals", "awaitEnrich", "done"
    aRequests,      \* the source requests, by position in activeSources: [path, query]
    aPending,       \* the positions whose source request is in flight
    aResults,       \* sourceResults: the settled source promises, by position
    aServed,        \* what the remote answered each source request, by position
    aOvertaken,     \* a source request settled before one sent earlier
    aSummary,       \* companySummaries: the Map's entries in insertion order
    aDealQuery,     \* the query of the deals request, JUndef when none was sent
    aDealResponse,  \* what the remote answered the deals request, JUndef before
    aResult,        \* the handler's result, JUndef until it returns
    env,            \* process.env: ZERO_API_KEY and ZERO_WORKSPACE_NAME
    cachedWorkspaceId,      \* services/api.ts module state; JNull when not set
    cachedPipelineStages,   \* services/api.ts module state: Map entries, or JNull
    sCall,          \* the service call in progress or last returned: [op, arg]
    sPc,            \* "idle", "awaitWorkspaces", "awaitLookup", "returned"
    sOut,           \* what the call returned or threw, JUndef while it runs
    sRequests,      \* the paths and queries the call has requested, in order
    sCalls,         \* the number of service calls made
    tTasks,         \* the tool calls made, in order of their start: [op, arg, pc, ...]
    tStagesOf,      \* the workspace id the cached stage map was requested for, or JNull
    tSwitched,      \* the workspace id of the last zero_switch_workspace that succeeded
    pStatus,        \* the HTTP status of the answer to the page's list request, or JUndef
    pMessage,       \* the message of the error result the handler returned, or JUndef
    pShown          \* the ids of the remote records shown on the pages before this one

whereVars == <<bqParams, bqQuery>>
fetchVars == <<faArgs, faPc, faQuery, allEvents, currentOffset, hasMore, hitCap,
               faServed, faLog, faResponses, faBit>>
dedupVars == <<heap, dIn, dGiven, dRes, dFirst, dRes2>>
listVars == <<hArgs, hPc, hWhere, hFallback, hFields, hQuery, hEvents, hOffset,
              hHitCap, hTotal, hPending, hLookups, hSettled, hResult>>
dealVars == <<aArgs, aPc, aRequests, aPending, aResults, aServed, aOvertaken,
              aSummary, aDealQuery,
              aDealResponse, aResult>>
apiVars == <<env, cachedWorkspaceId, cachedPipelineStages, sCall, sPc, sOut, sRequests, sCalls>>
toolVars == <<tTasks, tStagesOf, tSwitched>>
pageVars == <<pStatus, pMessage, pShown>>
vars == <<whereVars, fetchVars, dedupVars, listVars, dealVars, apiVars, toolVars, pageVars>>

(***************************************************************************)
(* JavaScript values.  An object is the sequence of its own enumerable     *)
(* properties in insertion order; keys are distinct.                       *)
(***************************************************************************)
JUndef == [t |-> "undefined"]
JNull == [t |-> "null"]
JStr(s) == [t |-> "str", s |-> s]
JArr(a) == [t |-> "arr", a |-> a]
JObj(o) == [t |-> "obj", o |-> o]
JText(j) == [t |-> "json", j |-> j]

Prop(k, v) == [k |-> k, v |-> v]

HasKey(o, k) == \E i \in 1..Len(o) : o[i].k = k

GetKey(o, k) ==
    IF HasKey(o, k) THEN o[CHOOSE i \in 1..Len(o) : o[i].k = k].v ELSE JUndef

\* o[k] = v on an object: an existing key keeps its position, a new one is appended
SetKey(o, k, v) ==
    IF HasKey(o, k)
    THEN [i \in 1..Len(o) |-> IF o[i].k = k THEN Prop(k, v) ELSE o[i]]
    ELSE Append(o, Prop(k, v))

Keys(o) == {o[i].k : i \in 1..Len(o)}

\* a ?? b
Nullish(a, b) == IF a.t \in {"null", "undefined"} THEN b ELSE a

\* JSON.stringify, as the JSON value its text denotes: a property whose value
\* is undefined is dropped, an undefined array element becomes null
RECURSIVE Stringify(_)
Stringify(x) ==
    CASE x.t = "obj" ->
           LET kept == SelectSeq(x.o, LAMBDA p : p.v.t # "undefined")
           IN  JObj([i \in 1..Len(kept) |-> Prop(kept[i].k, Stringify(kept[i].v))])
      [] x.t = "arr" ->
           JArr([i \in 1..Len(x.a) |->
                    IF x.a[i].t = "undefined" THEN JNull ELSE Stringify(x.a[i])])
      [] OTHER -> x

\* String(n) for a non-negative integer: its decimal digits
RECURSIVE ToDecimal(_)
ToDecimal(n) ==
    LET d == <<"0", "1", "2", "3", "4", "5", "6", "7", "8", "9">>[(n % 10) + 1]
    IN  IF n < 10 THEN <<d>> ELSE Append(ToDecimal(n \div 10), d)

JNum(n) == [t |-> "num", n |-> n]
JBool(b) == [t |-> "bool", b |-> b]

\* a comma-separated field list as the sequence of its items; an item is a
\* field name, or relation.name in dot notation
JFields(f) == [t |-> "fields", f |-> f]
Field(name) == [rel |-> "", name |-> name]
RelField(rel, name) == [rel |-> rel, name |-> name]
JDigits(n) == [t |-> "digits", d |-> ToDecimal(n)]

(***************************************************************************)
(* The parts of the state a specification leaves out stay at these values. *)
(***************************************************************************)
WhereIdle == bqParams = JUndef /\ bqQuery = JUndef

FetchIdle ==
    /\ faArgs = JUndef /\ faPc = "idle" /\ faQuery = JUndef
    /\ allEvents = <<>> /\ currentOffset = 0 /\ hasMore = FALSE /\ hitCap = FALSE
    /\ faServed = 0 /\ faLog = <<>> /\ faResponses = <<>> /\ faBit = 0

DedupIdle ==
    /\ heap = <<>> /\ dIn = <<>> /\ dGiven = <<>>
    /\ dRes = JUndef /\ dFirst = <<>> /\ dRes2 = JUndef

ListIdle ==
    /\ hArgs = JUndef /\ hPc = "idle" /\ hWhere = JUndef /\ hFallback = FALSE
    /\ hFields = JUndef /\ hQuery = JUndef /\ hEvents = <<>> /\ hOffset = 0
    /\ hHitCap = FALSE /\ hTotal = JUndef
    /\ hPending = {} /\ hLookups = <<>> /\ hSettled = {} /\ hResult = JUndef

DealsIdle ==
    /\ aArgs = JUndef /\ aPc = "idle" /\ aRequests = <<>> /\ aPending = {}
    /\ aResults = <<>> /\ aServed = <<>> /\ aOvertaken = FALSE /\ aSummary = <<>>
    /\ aDealQuery = JUndef /\ aDealResponse = JUndef
    /\ aResult = JUndef

ApiIdle ==
    /\ env = JUndef
    /\ cachedWorkspaceId = JNull /\ cachedPipelineStages = JNull
    /\ sCall = JUndef /\ sPc = "idle" /\ sOut = JUndef /\ sRequests = <<>> /\ sCalls = 0

ToolsIdle == tTasks = <<>> /\ tStagesOf = JNull /\ tSwitched = JNull

PagesIdle == pStatus = JUndef /\ pMessage = JUndef /\ pShown = {}

(***************************************************************************)
(* services/api.ts: transformWhereClause, buildQueryParams                 *)
(***************************************************************************)
BoundOps == {"$gte", "$lte", "$lt"}

\* the upper bound of the $between pair: $lte ?? $lt
UpperBound(cond) == Nullish(GetKey(cond, "$lte"), GetKey(cond, "$lt"))

\* TransformCondition with $lt left out of the destructuring pattern
TransformConditionKeepsLt(condition) ==
    IF condition.t = "obj"
    THEN LET cond == condition.o
         IN  IF HasKey(cond, "$gte") /\ (HasKey(cond, "$lte") \/ HasKey(cond, "$lt"))
             THEN LET rest == SelectSeq(cond, LAMBDA p : p.k \notin {"$gte", "$lte"})
                      between == JArr(<<GetKey(cond, "$gte"), UpperBound(cond)>>)
                  IN  JObj(SetKey(rest, "$between", between))
             ELSE condition
    ELSE condition

\* the body of the for loop: the value stored under result[field]
TransformCondition(condition) ==
    IF condition.t = "obj"
    THEN LET cond == condition.o
         IN  IF HasKey(cond, "$gte") /\ (HasKey(cond, "$lte") \/ HasKey(cond, "$lt"))
             THEN LET rest == SelectSeq(cond, LAMBDA p : p.k \notin BoundOps)
                      between == JArr(<<GetKey(cond, "$gte"), UpperBound(cond)>>)
                  IN  JObj(SetKey(rest, "$between", between))
             ELSE condition
    ELSE condition

transformWhereClause(where) ==
    JObj([i \in 1..Len(where.o) |->
             Prop(where.o[i].k, TransformCondition(where.o[i].v))])

\* a value that passes `if (x)`; numbers are tested with !== undefined in the code
Truthy(x) ==
    /\ x.t \notin {"undefined", "null"}
    /\ x # JStr("") /\ x # JFields(<<>>) /\ x # JBool(FALSE) /\ x # JNum(0)
    /\ x # [t |-> "chars", c |-> <<>>]

ParamKeys == <<"workspaceId", "fields", "where", "limit", "offset", "orderBy">>

buildQueryParams(params) ==
    LET val(k) ==
            CASE k = "where" -> JText(Stringify(transformWhereClause(params.where)))
              [] k = "orderBy" -> JText(Stringify(params.orderBy))
              [] k \in {"limit", "offset"} -> JDigits(params[k].n)
              [] OTHER -> params[k]
        present(k) ==
            IF k \in {"limit", "offset"} THEN params[k].t # "undefined"
            ELSE Truthy(params[k])
        keys == SelectSeq(ParamKeys, present)
    IN  JObj([i \in 1..Len(keys) |-> Prop(keys[i], val(keys[i]))])

ListParams(ws, where, limit, offset, orderBy, fields) ==
    [workspaceId |-> ws, fields |-> fields, where |-> where,
     limit |-> limit, offset |-> offset, orderBy |-> orderBy]

(***************************************************************************)
(* tools/calendar-events.ts: the fetchAll path of zero_list_calendar_events *)
(***************************************************************************)
FETCH_ALL_PAGE_SIZE == 200
FETCH_ALL_CAP == 500

MaxLogged == 3

\* the default filter the handler injects when the caller gives no startTime
DefaultStartTime == JObj(<<Prop("$gte", JStr("2000-01-01"))>>)

\* parseInt of a decimal digit sequence, as the remote reads limit and offset
RECURSIVE FromDecimal(_)
FromDecimal(d) ==
    IF Len(d) = 0 THEN 0
    ELSE LET last == d[Len(d)]
             v == CHOOSE n \in 0..9 : ToDecimal(n) = <<last>>
         IN  10 * FromDecimal(SubSeq(d, 1, Len(d) - 1)) + v

\* `total ? a : b` on the response's total
NumTruthy(x) == x.t = "num" /\ x.n # 0

\* the page request with the offset never advanced
PageQueryFirstPage(where, orderBy, fields, offset) ==
    buildQueryParams(ListParams(JStr("ws-1"), where, JNum(FETCH_ALL_PAGE_SIZE),
                                JNum(0), orderBy, fields))

\* the page request of one loop iteration (lines 197-204)
PageQuery(where, orderBy, fields, offset) ==
    buildQueryParams(ListParams(JStr("ws-1"), where, JNum(FETCH_ALL_PAGE_SIZE),
                                JNum(offset), orderBy, fields))

\* hasMore after a page (line 212)
HasMoreAfter(total, offset, pageLen) ==
    IF NumTruthy(total) THEN offset < total.n ELSE pageLen = FETCH_ALL_PAGE_SIZE

\* while (hasMore && allEvents.length < FETCH_ALL_CAP)
LoopContinues(more, events) == more /\ Len(events) < FETCH_ALL_CAP

\* hitCap (line 216)
HitCapOf(events) == Len(events) > FETCH_ALL_CAP

\* the trim to the safety cap without the slice
TrimToCapNoSlice(events) == events

\* the trim to the safety cap (lines 217-219)
TrimToCap(events) ==
    IF HitCapOf(events) THEN SubSeq(events, 1, FETCH_ALL_CAP) ELSE events

\* the records the remote returns for a query: n records from the query's offset
RemotePage(query, n) ==
    LET from == FromDecimal(GetKey(query.o, "offset").d)
    IN  [i \in 1..n |-> from + i - 1]

Logged(log, x) == IF Len(log) < MaxLogged THEN Append(log, x) ELSE log

\* page lengths and totals the remote may answer with
PageLengths == {0, 50, 200, 300}
Totals == {JUndef, JNum(250), JNum(600)}
\* the caller's limit and offset arguments: absent, or limit 5 and offset 10
ArgPaging == {<<JUndef, JUndef>>, <<JNum(5), JNum(10)>>}

\* the handler up to its first page request (lines 163-206)
InitFetchAll ==
    /\ WhereIdle /\ DedupIdle /\ ListIdle /\ DealsIdle /\ ApiIdle /\ ToolsIdle /\ PagesIdle
    /\ \E a \in ArgPaging :
          faArgs = [limit |-> a[1], offset |-> a[2], where |-> JObj(<<Prop("startTime", DefaultStartTime)>>),
                    orderBy |-> JUndef, fields |-> JUndef]
    /\ faPc = "awaiting"
    /\ allEvents = <<>> /\ currentOffset = 0 /\ hasMore = TRUE /\ hitCap = FALSE
    /\ faQuery = PageQuery(faArgs.where, faArgs.orderBy, faArgs.fields, 0)
    /\ faServed = 0
    /\ faLog = <<faQuery>>
    /\ faResponses = <<>>
    /\ faBit = 0

\* a page response arrives (lines 207-212); the loop either issues the next
\* request or ends, and then the trim to the cap runs (lines 216-219)
PageResponse ==
    /\ faPc = "awaiting"
    /\ \E n \in PageLengths, total \in Totals :
          LET pageEvents == RemotePage(faQuery, n)
              events == allEvents \o pageEvents
              offset == currentOffset + Len(pageEvents)
              more == HasMoreAfter(total, offset, Len(pageEvents))
          IN  /\ currentOffset' = offset
              /\ hasMore' = more
              /\ faServed' = faServed + n
              /\ faResponses' = Logged(faResponses, [n |-> n, total |-> total])
              /\ IF LoopContinues(more, events)
                 THEN /\ allEvents' = events
                      /\ faQuery' = PageQuery(faArgs.where, faArgs.orderBy,
                                               faArgs.fields, offset)
                      /\ faLog' = Logged(faLog, faQuery')
                      /\ faBit' = 1 - faBit
                      /\ UNCHANGED <<faPc, hitCap>>
                 ELSE /\ hitCap' = HitCapOf(events)
                      /\ allEvents' = TrimToCap(events)
                      /\ faPc' = "done"
                      /\ faQuery' = JUndef
                      /\ UNCHANGED <<faLog, faBit>>
    /\ UNCHANGED <<faArgs, whereVars, dedupVars, listVars,
                   dealVars, apiVars, toolVars, pageVars>>

\* a page request fails: the handler's catch returns an error result (line 357)
PageFailure ==
    /\ faPc = "awaiting"
    /\ faPc' = "error"
    /\ faQuery' = JUndef
    /\ UNCHANGED <<faArgs, allEvents, currentOffset, hasMore, hitCap, faServed,
                   faLog, faResponses, faBit, whereVars, dedupVars, listVars,
                   dealVars, apiVars, toolVars, pageVars>>

NextFetchAll == PageResponse \/ PageFailure

SpecFetchAll == InitFetchAll /\ [][NextFetchAll]_vars

\* the remote answers every page request
FairSpecFetchAll == SpecFetchAll /\ WF_vars(PageResponse)

QueryLimit(q) == GetKey(q.o, "limit")
QueryOffset(q) == FromDecimal(GetKey(q.o, "offset").d)

RECURSIVE ReturnedBefore(_)
\* the number of records returned by the first k logged responses
ReturnedBefore(k) == IF k = 0 THEN 0 ELSE ReturnedBefore(k - 1) + faResponses[k].n

\* C2: the fetchAll path hands at most 500 events on to deduplication and
\* rendering, whatever pages and totals the remote answered with.
C2_AtMostCap ==
    /\ faPc = "done" => Len(allEvents) <= FETCH_ALL_CAP
    /\ faPc = "awaiting" => Len(allEvents) < FETCH_ALL_CAP

\* more than 500 records were fetched and 500 are handed on
C2_Witness ==
    faPc = "done" /\ faServed > FETCH_ALL_CAP /\ Len(allEvents) = FETCH_ALL_CAP

\* C3: every page request carries limit 200 and an offset equal to the number
\* of records all earlier pages returned, whatever the caller's limit and
\* offset; a source answering 200 then 50 records with total 250 gets exactly
\* two requests, at offsets 0 and 200.
C3_PageRequests ==
    /\ faPc = "awaiting" =>
          /\ QueryLimit(faQuery) = JDigits(200)
          /\ QueryOffset(faQuery) = faServed
    /\ \A k \in 1..Len(faLog) :
          /\ k - 1 <= Len(faResponses)
          /\ QueryLimit(faLog[k]) = JDigits(200)
          /\ QueryOffset(faLog[k]) = ReturnedBefore(k - 1)
    /\ faResponses = <<[n |-> 200, total |-> JNum(250)], [n |-> 50, total |-> JNum(250)]>>
          => /\ faPc = "done"
             /\ Len(faLog) = 2
             /\ QueryOffset(faLog[1]) = 0 /\ QueryOffset(faLog[2]) = 200

\* the caller gave limit 5 and offset 10, and the source answered 200 then 50
\* records with total 250
C3_Witness ==
    /\ faPc = "done"
    /\ faArgs.limit = JNum(5) /\ faArgs.offset = JNum(10)
    /\ faResponses = <<[n |-> 200, total |-> JNum(250)], [n |-> 50, total |-> JNum(250)]>>
    /\ Len(allEvents) = 250

\* C4: when the loop stops because 500 records are accumulated while more
\* remain, the result holds exactly 500 records and the truncation flag is set.
C4_CapSetsFlag ==
    (faPc = "done" /\ hasMore /\ faServed >= FETCH_ALL_CAP)
        => (hitCap /\ Len(allEvents) = FETCH_ALL_CAP)

\* C5: the fetchAll loop ends after finitely many page requests when every
\* request is answered.
C5_Terminates == <>(faPc \in {"done", "error"})

(***************************************************************************)
(* tools/calendar-events.ts: deduplicateCalendarEvents                     *)
(***************************************************************************)
\* a string as the sequence of its characters
JChars(c) == [t |-> "chars", c |-> c]

KeyTimeLength == 16

UpperCase == <<"A", "B", "C", "D", "E", "F", "G", "H", "I", "J", "K", "L", "M",
               "N", "O", "P", "Q", "R", "S", "T", "U", "V", "W", "X", "Y", "Z">>
LowerCase == <<"a", "b", "c", "d", "e", "f", "g", "h", "i", "j", "k", "l", "m",
               "n", "o", "p", "q", "r", "s", "t", "u", "v", "w", "x", "y", "z">>
WhiteSpace == {" ", "\t", "\n"}

\* String.prototype.toLowerCase
ToLowerCase(c) ==
    [i \in 1..Len(c) |->
        IF \E j \in 1..26 : UpperCase[j] = c[i]
        THEN LowerCase[CHOOSE j \in 1..26 : UpperCase[j] = c[i]]
        ELSE c[i]]

\* String.prototype.trim
RECURSIVE Trim(_)
Trim(c) ==
    IF Len(c) = 0 THEN c
    ELSE IF c[1] \in WhiteSpace THEN Trim(Tail(c))
    ELSE IF c[Len(c)] \in WhiteSpace THEN Trim(SubSeq(c, 1, Len(c) - 1))
    ELSE c

\* s.slice(0, n)
SliceTo(c, n) == SubSeq(c, 1, IF Len(c) < n THEN Len(c) ELSE n)

\* (s || '')
OrEmptyString(x) == IF x.t = "chars" THEN x.c ELSE <<>>

\* (a || [])
OrEmptyArray(x) == IF x.t = "arr" THEN x.a ELSE <<>>

\* [...new Set(a)]: the first occurrence of every element, in order
RECURSIVE SetSpread(_)
SetSpread(a) ==
    IF Len(a) = 0 THEN a
    ELSE LET front == SetSpread(SubSeq(a, 1, Len(a) - 1))
             x == a[Len(a)]
         IN  IF \E i \in 1..Len(front) : front[i] = x THEN front ELSE Append(front, x)

\* the identity key without the lower-casing of the name
EventKeyCaseSensitive(event) ==
    Trim(OrEmptyString(event.name)) \o <<"|">>
        \o SliceTo(OrEmptyString(event.startTime), KeyTimeLength)

\* the identity key with the time cut at the hour
EventKeyByHour(event) ==
    ToLowerCase(Trim(OrEmptyString(event.name))) \o <<"|">>
        \o SliceTo(OrEmptyString(event.startTime), 13)

\* the identity key (line 18)
EventKey(event) ==
    ToLowerCase(Trim(OrEmptyString(event.name))) \o <<"|">>
        \o SliceTo(OrEmptyString(event.startTime), KeyTimeLength)

\* the union without the Set
UnionArraysConcat(a, b) == JArr(OrEmptyArray(a) \o OrEmptyArray(b))

\* [...new Set([...(a || []), ...(b || [])])] (lines 22-26)
UnionArrays(a, b) == JArr(SetSpread(OrEmptyArray(a) \o OrEmptyArray(b)))

ArrayFields == {"contactIds", "companyIds", "dealIds", "userIds", "attendeeEmails"}
ScalarFields == {"id", "name", "startTime", "endTime", "location", "description"}

\* the merge that lets the later record replace the first one's scalar fields
MergeIntoLastWins(existing, event) ==
    [f \in DOMAIN existing |->
        IF f \in ArrayFields THEN UnionArrays(existing[f], event[f]) ELSE event[f]]

\* the merge of a later record into the first one of its key (lines 22-26)
MergeInto(existing, event) ==
    [existing EXCEPT
        !.contactIds = UnionArrays(existing.contactIds, event.contactIds),
        !.companyIds = UnionArrays(existing.companyIds, event.companyIds),
        !.dealIds = UnionArrays(existing.dealIds, event.dealIds),
        !.userIds = UnionArrays(existing.userIds, event.userIds),
        !.attendeeEmails = UnionArrays(existing.attendeeEmails, event.attendeeEmails)]

\* seen.get(key): the reference stored under key, 0 when there is none
SeenGet(seen, key) ==
    IF \E j \in 1..Len(seen) : seen[j].key = key
    THEN seen[CHOOSE j \in 1..Len(seen) : seen[j].key = key].ref
    ELSE 0

\* one iteration of the loop with the event itself stored under its key
\* instead of a copy
DedupIterationInPlace(st, ref) ==
    LET event == st.heap[ref]
        key == EventKey(event)
        existing == SeenGet(st.seen, key)
    IN  IF existing # 0
        THEN [st EXCEPT !.heap[existing] = MergeInto(st.heap[existing], event),
                        !.duplicatesRemoved = @ + 1]
        ELSE [st EXCEPT !.seen = Append(st.seen, [key |-> key, ref |-> ref])]

\* one iteration of the for loop (lines 17-32) on the event object ref;
\* st = [heap, seen, duplicatesRemoved]
DedupIteration(st, ref) ==
    LET event == st.heap[ref]
        key == EventKey(event)
        existing == SeenGet(st.seen, key)
    IN  IF existing # 0
        THEN [st EXCEPT !.heap[existing] = MergeInto(st.heap[existing], event),
                        !.duplicatesRemoved = @ + 1]
        ELSE \* { ...event } is a new object
             [st EXCEPT !.heap = Append(st.heap, event),
                        !.seen = Append(st.seen, [key |-> key, ref |-> Len(st.heap) + 1])]

RECURSIVE DedupLoop(_, _, _)
\* the state after the first n iterations
DedupLoop(h, events, n) ==
    IF n = 0 THEN [heap |-> h, seen |-> <<>>, duplicatesRemoved |-> 0]
    ELSE DedupIteration(DedupLoop(h, events, n - 1), events[n])

\* the call on the list events of references into h: the heap it leaves and
\* its result (lines 13-35)
deduplicateCalendarEvents(h, events) ==
    LET st == DedupLoop(h, events, Len(events))
    IN  [heap |-> st.heap,
         events |-> [j \in 1..Len(st.seen) |-> st.seen[j].ref],
         duplicatesRemoved |-> st.duplicatesRemoved]

\* the field values of a list of references
Deref(h, events) == [i \in 1..Len(events) |-> h[events[i]]]

(***************************************************************************)
(* Inputs of the deduplication                                             *)
(***************************************************************************)
MaxEvents == 3

WeeklySync == JChars(<<"W", "e", "e", "k", "l", "y", " ", "S", "y", "n", "c">>)
WeeklySyncPadded ==
    JChars(<<" ", "w", "e", "e", "k", "l", "y", " ", "s", "y", "n", "c", " ">>)
\* 2026-02-05T14:00
Time1400 == JChars(<<"2", "0", "2", "6", "-", "0", "2", "-", "0", "5", "T",
                     "1", "4", ":", "0", "0">>)
\* 2026-02-05T14:29
Time1429 == JChars(<<"2", "0", "2", "6", "-", "0", "2", "-", "0", "5", "T",
                     "1", "4", ":", "2", "9">>)
\* 2026-02-05T14:00:29
Time140029 == JChars(Time1400.c \o <<":", "2", "9">>)
\* 2026-02-05T14:00:00Z
Time140000Z == JChars(Time1400.c \o <<":", "0", "0", "Z">>)

\* a CalendarEvent as the remote returns it without relations; contacts and
\* companies are the relation properties a join or the fallback attaches
Event(id, name, startTime, endTime, location, description, contactIds, companyIds, dealIds, userIds, attendeeEmails) ==
    [id |-> id, name |-> name, startTime |-> startTime, endTime |-> endTime,
     location |-> location, description |-> description, contactIds |-> contactIds,
     companyIds |-> companyIds, dealIds |-> dealIds, userIds |-> userIds,
     attendeeEmails |-> attendeeEmails, contacts |-> JUndef, companies |-> JUndef]

RecordA ==
    Event(JStr("ev-A"), WeeklySync, Time1400, JUndef, JUndef, JUndef,
          JArr(<<"ct-1">>), JUndef, JUndef, JUndef, JUndef)
RecordB ==
    Event(JStr("ev-B"), WeeklySync, Time1429, JUndef, JUndef, JUndef,
          JArr(<<"ct-2">>), JUndef, JUndef, JUndef, JUndef)
RecordBSameMinute ==
    Event(JStr("ev-B2"), WeeklySync, Time140029, JUndef, JUndef, JUndef,
          JArr(<<"ct-2">>), JUndef, JUndef, JUndef, JUndef)
RecordPadded ==
    Event(JStr("ev-1"), WeeklySyncPadded, Time140000Z, JStr("2026-02-05T14:30:00Z"),
          JStr("Zoom"), JStr("weekly"), JArr(<<"ct-2", "ct-1">>), JArr(<<"co-1">>),
          JArr(<<>>), JArr(<<"u-1", "u-1">>), JArr(<<"a@test.com">>))
RecordUnnamed ==
    Event(JStr("ev-2"), JUndef, JUndef, JUndef, JStr("Office"), JUndef,
          JArr(<<"ct-3", "ct-3">>), JArr(<<"co-1">>), JUndef, JArr(<<"u-1">>), JUndef)
RecordEmptyName ==
    Event(JStr("ev-3"), JChars(<<>>), JUndef, JStr("2026-02-06T10:30:00Z"), JUndef,
          JStr("untitled"), JUndef, JArr(<<"co-2", "co-1">>), JArr(<<"d-1">>),
          JArr(<<"u-2">>), JArr(<<"b@test.com">>))

EventRecords ==
    {RecordA, RecordB, RecordBSameMinute, RecordPadded, RecordUnnamed, RecordEmptyName}

\* the argument is a list of up to MaxEvents distinct objects
InitDedup ==
    /\ WhereIdle /\ FetchIdle /\ ListIdle /\ DealsIdle /\ ApiIdle /\ ToolsIdle /\ PagesIdle
    /\ \E n \in 0..MaxEvents : \E given \in [1..n -> EventRecords] :
          /\ heap = given
          /\ dIn = [i \in 1..n |-> i]
          /\ dGiven = given
    /\ dRes = JUndef /\ dFirst = <<>> /\ dRes2 = JUndef

\* deduplicateCalendarEvents(events)
Dedup ==
    /\ dRes = JUndef
    /\ LET r == deduplicateCalendarEvents(heap, dIn)
       IN  /\ heap' = r.heap
           /\ dRes' = [events |-> r.events, duplicatesRemoved |-> r.duplicatesRemoved]
           /\ dFirst' = Deref(r.heap, r.events)
    /\ UNCHANGED <<dIn, dGiven, dRes2, whereVars, fetchVars, listVars,
                   dealVars, apiVars, toolVars, pageVars>>

\* deduplicateCalendarEvents on the events the first call returned
DedupAgain ==
    /\ dRes # JUndef /\ dRes2 = JUndef
    /\ LET r == deduplicateCalendarEvents(heap, dRes.events)
       IN  /\ heap' = r.heap
           /\ dRes2' = [events |-> r.events, duplicatesRemoved |-> r.duplicatesRemoved]
    /\ UNCHANGED <<dIn, dGiven, dRes, dFirst, whereVars, fetchVars, listVars,
                   dealVars, apiVars, toolVars, pageVars>>

NextDedup == Dedup \/ DedupAgain

SpecDedup == InitDedup /\ [][NextDedup]_vars

\* the identity of a record: its trimmed, lower-cased name and the first 16
\* characters of its startTime
IdentityKey(e) ==
    <<ToLowerCase(Trim(OrEmptyString(e.name))), SliceTo(OrEmptyString(e.startTime), 16)>>

\* the positions of the given records with identity k
Group(k) == {i \in 1..Len(dGiven) : IdentityKey(dGiven[i]) = k}

\* the positions of the given records that are the first of their identity
FirstSeen ==
    {i \in 1..Len(dGiven) :
        \A h \in 1..(i - 1) : IdentityKey(dGiven[h]) # IdentityKey(dGiven[i])}

Elements(x) == {OrEmptyArray(x)[i] : i \in 1..Len(OrEmptyArray(x))}

NoRepeats(a) == \A i, j \in 1..Len(a) : i # j => a[i] # a[j]

\* C6: deduplicating the events a deduplication returned gives the same
\* events in the same order with duplicatesRemoved = 0, and no two returned
\* events share an identity.
C6_Idempotent ==
    dRes2 # JUndef =>
        /\ Deref(heap, dRes2.events) = dFirst
        /\ dRes2.duplicatesRemoved = 0
        /\ \A i, j \in 1..Len(dFirst) :
              i # j => IdentityKey(dFirst[i]) # IdentityKey(dFirst[j])

\* the second call ran on the result of a call that merged records and
\* returned more than one event
C6_Witness ==
    /\ dRes2 # JUndef
    /\ dRes.duplicatesRemoved >= 1
    /\ Len(dFirst) >= 2

\* C7: every array field of a record merged from several given records holds,
\* as a set, the union of that field over those records, without repeats.
C7_MergedUnion ==
    dRes # JUndef =>
        \A j \in 1..Len(dFirst) :
            LET g == Group(IdentityKey(dFirst[j]))
            IN  Cardinality(g) >= 2 =>
                    \A f \in ArrayFields :
                        /\ dFirst[j][f].t = "arr"
                        /\ Elements(dFirst[j][f]) = UNION {Elements(dGiven[i][f]) : i \in g}
                        /\ NoRepeats(dFirst[j][f].a)

\* three given records of one identity were merged, two of them carrying ct-1
\* and one carrying it twice over with another id
C7_Witness ==
    /\ dRes # JUndef
    /\ \E j \in 1..Len(dFirst) :
          /\ Cardinality(Group(IdentityKey(dFirst[j]))) = 3
          /\ Cardinality({i \in Group(IdentityKey(dFirst[j])) :
                             "ct-1" \in Elements(dGiven[i].contactIds)}) >= 2
          /\ Elements(dFirst[j].contactIds) = {"ct-1", "ct-2"}

\* C8 as stated: record A (14:00) followed by record B (14:29) gives one
\* record with contactIds {ct-1, ct-2} and duplicatesRemoved = 1.
C8_MergesAcrossMinutes ==
    (dRes # JUndef /\ dGiven = <<RecordA, RecordB>>) =>
        /\ Len(dFirst) = 1
        /\ Elements(dFirst[1].contactIds) = {"ct-1", "ct-2"}
        /\ dRes.duplicatesRemoved = 1

\* C8 amended: record A (14:00) followed by record B (14:29) gives two
\* records, unmerged, with duplicatesRemoved = 0; followed by a record of the
\* same name within the same minute (14:00:29) it gives one record with
\* contactIds [ct-1, ct-2] and duplicatesRemoved = 1.
C8_MergesWithinMinute ==
    dRes # JUndef =>
        /\ dGiven = <<RecordA, RecordB>> =>
              /\ Len(dFirst) = 2
              /\ dFirst[1].contactIds = JArr(<<"ct-1">>)
              /\ dFirst[2].contactIds = JArr(<<"ct-2">>)
              /\ dRes.duplicatesRemoved = 0
        /\ dGiven = <<RecordA, RecordBSameMinute>> =>
              /\ Len(dFirst) = 1
              /\ dFirst[1].contactIds = JArr(<<"ct-1", "ct-2">>)
              /\ dRes.duplicatesRemoved = 1

\* record A followed by record B has been deduplicated
C8_Witness ==
    /\ dRes # JUndef
    /\ dGiven = <<RecordA, RecordB>>
    /\ Len(dRes.events) = 2

\* C9: the result holds one event per identity, in the order of the first
\* occurrences, each with the scalar fields of the first given record of its
\* identity; duplicatesRemoved is the given length minus the returned length.
C9_FirstSeenOrder ==
    dRes # JUndef =>
        /\ Len(dFirst) = Cardinality(FirstSeen)
        /\ \A j \in 1..Len(dFirst) :
              \E i \in FirstSeen :
                  /\ Cardinality({h \in FirstSeen : h < i}) = j - 1
                  /\ \A f \in ScalarFields : dFirst[j][f] = dGiven[i][f]
        /\ dRes.duplicatesRemoved = Len(dGiven) - Len(dFirst)

\* the first and third given records share an identity but differ in id, the
\* second has another identity
C9_Witness ==
    /\ dRes # JUndef
    /\ Len(dGiven) = 3 /\ Len(dFirst) = 2
    /\ IdentityKey(dGiven[1]) = IdentityKey(dGiven[3])
    /\ IdentityKey(dGiven[1]) # IdentityKey(dGiven[2])
    /\ dGiven[1].id # dGiven[3].id
    /\ dGiven[1].location # dGiven[3].location

(***************************************************************************)
(* services/relations.ts: RELATION_FIELDS.calendarEvent, buildIncludeFields *)
(***************************************************************************)
RelationNames == {"contacts", "companies", "tasks"}

RelationFields(name) ==
    CASE name = "contacts" ->
           <<RelField("contacts", "id"), RelField("contacts", "firstName"),
             RelField("contacts", "lastName"), RelField("contacts", "email"),
             RelField("contacts", "title")>>
      [] name = "companies" ->
           <<RelField("companies", "id"), RelField("companies", "name"),
             RelField("companies", "domain")>>
      [] name = "tasks" ->
           <<RelField("tasks", "id"), RelField("tasks", "name"),
             RelField("tasks", "done"), RelField("tasks", "deadline")>>

\* names.map(name => relations[name]).join(',')
RECURSIVE JoinFields(_)
JoinFields(names) ==
    IF Len(names) = 0 THEN <<>>
    ELSE RelationFields(Head(names)) \o JoinFields(Tail(names))

buildIncludeFields(include, baseFields) ==
    LET known == SelectSeq(include, LAMBDA name : name \in RelationNames)
    IN  IF Len(known) = 0
        THEN (IF Truthy(baseFields) THEN baseFields ELSE JFields(<<>>))
        ELSE IF Truthy(baseFields)
             THEN JFields(baseFields.f \o JoinFields(known))
             ELSE JFields(JoinFields(known))

(***************************************************************************)
(* tools/calendar-events.ts: zero_list_calendar_events.handler and         *)
(* resolveCalendarEventIncludes                                            *)
(***************************************************************************)
MaxPage == 2

DefaultFields ==
    JFields(<<Field("id"), Field("name"), Field("startTime"), Field("endTime"),
              Field("location"), Field("userIds"), Field("dealIds"),
              Field("companyIds"), Field("contactIds"), Field("createdAt"),
              Field("updatedAt")>>)

\* a || b
OrElse(a, b) == IF Truthy(a) THEN a ELSE b

\* include.includes(name)
Includes(a, name) == \E i \in 1..Len(a) : a[i] = name

\* args.include && args.include.length > 0
HasInclude(args) == args.include.t = "arr" /\ Len(args.include.a) > 0

\* the effective filter (lines 167-170)
EffectiveWhere(args) ==
    LET where == args.where
    IN  IF /\ args.excludeNullDates # JBool(FALSE)
           /\ (~Truthy(where) \/ ~Truthy(GetKey(where.o, "startTime")))
        THEN JObj(SetKey(IF where.t = "obj" THEN where.o ELSE <<>>,
                         "startTime", DefaultStartTime))
        ELSE where

\* the strategy test with the filter left out
UseIncludeFallbackSortOnly(args, where) == HasInclude(args) /\ Truthy(args.orderBy)

\* useIncludeFallback (line 174)
UseIncludeFallback(args, where) ==
    HasInclude(args) /\ (Truthy(where) \/ Truthy(args.orderBy))

\* the fields of the base query (lines 176-182)
BaseFields(args, fallback) ==
    IF HasInclude(args) /\ ~fallback
    THEN buildIncludeFields(args.include.a, OrElse(args.fields, DefaultFields))
    ELSE args.fields

DedupEnabled(args) == args.deduplicate # JBool(FALSE)
Limit(args) == OrElse(args.limit, JNum(20)).n
Offset(args) == OrElse(args.offset, JNum(0)).n
\* the request limit without the over-fetch
FetchLimitNoOverfetch(args) == Limit(args)
\* the request limit (line 280)
FetchLimit(args) == IF DedupEnabled(args) THEN Limit(args) * 2 ELSE Limit(args)

\* the request of the standard path (lines 282-289)
StandardQuery(args, where, fields) ==
    buildQueryParams(ListParams(JStr("ws-1"), where, JNum(FetchLimit(args)),
                                JNum(Offset(args)), args.orderBy, fields))

\* events.flatMap(e => e[idField] || [])
RECURSIVE FlatMapIds(_, _, _)
FlatMapIds(h, events, idField) ==
    IF Len(events) = 0 THEN <<>>
    ELSE OrEmptyArray(h[Head(events)][idField]) \o FlatMapIds(h, Tail(events), idField)

\* [...new Set(events.flatMap(e => e[idField] || []))]
AllIds(h, events, idField) == SetSpread(FlatMapIds(h, events, idField))

\* what the fallback knows of a relation it can resolve
IdFieldOf(rel) == IF rel = "contacts" THEN "contactIds" ELSE "companyIds"
PathOf(rel) == IF rel = "contacts" THEN "/api/contacts" ELSE "/api/companies"
\* the lookup that asks for the id alone
LookupFieldsIdOnly(rel) == JFields(<<Field("id")>>)

LookupFields(rel) ==
    IF rel = "contacts"
    THEN JFields(<<Field("id"), Field("firstName"), Field("lastName"), Field("email"),
                   Field("title")>>)
    ELSE JFields(<<Field("id"), Field("name"), Field("domain")>>)

\* the bulk lookup of a relation (lines 56-62, 84-90)
LookupRequest(rel, ids) ==
    [path |-> PathOf(rel),
     query |-> buildQueryParams(ListParams(
                   JStr("ws-1"),
                   JObj(<<Prop("id", JObj(<<Prop("$in",
                            JArr([i \in 1..Len(ids) |-> JStr(ids[i])]))>>))>>),
                   JNum(Len(ids)), JUndef, JUndef, LookupFields(rel)))]

\* the relations resolveCalendarEventIncludes looks up, in the order it
\* issues the requests (lines 50-52, 78-80)
LookupsOf(h, events, include) ==
    SelectSeq(<<"contacts", "companies">>,
              LAMBDA rel : Includes(include, rel)
                           /\ Len(AllIds(h, events, IdFieldOf(rel))) > 0)

\* the records of the remote's contacts and companies
RemoteIds == {"ct-1", "ct-2", "ct-3", "co-1", "co-2"}

RemoteRow(id) ==
    CASE id = "ct-1" -> [id |-> "ct-1", firstName |-> "Jane", lastName |-> "Doe",
                         email |-> "jane@acme.com", title |-> "CTO"]
      [] id = "ct-2" -> [id |-> "ct-2", firstName |-> "Bob", lastName |-> "Lee",
                         email |-> "bob@acme.com", title |-> "CFO"]
      [] id = "ct-3" -> [id |-> "ct-3", firstName |-> "Ann", lastName |-> "Ray",
                         email |-> "ann@beta.io", title |-> "VP"]
      [] id = "co-1" -> [id |-> "co-1", name |-> "Acme Corp", domain |-> "acme.com"]
      [] id = "co-2" -> [id |-> "co-2", name |-> "Beta Inc", domain |-> "beta.io"]

\* a remote record cut down to the requested fields
Project(row, names) == [n \in (DOMAIN row) \cap names |-> row[n]]

\* ids.map(id => map.get(id)).filter(Boolean) for the rows a lookup returned
AttachRows(ids, found, names) ==
    LET hit == SelectSeq(ids, LAMBDA id : id \in found)
    IN  JArr([i \in 1..Len(hit) |-> Project(RemoteRow(hit[i]), names)])

\* the loop that attaches a looked-up relation to every event (lines 65-69, 93-97)
AttachRelation(h, events, rel, found, names) ==
    [r \in 1..Len(h) |->
        IF \E i \in 1..Len(events) : events[i] = r
        THEN [h[r] EXCEPT ![rel] = AttachRows(OrEmptyArray(h[r][IdFieldOf(rel)]),
                                              found, names)]
        ELSE h[r]]

\* the names a field list asks of a relation
NamesOf(fields, rel) ==
    IF fields.t = "fields"
    THEN {fields.f[i].name : i \in {j \in 1..Len(fields.f) : fields.f[j].rel = rel}}
    ELSE {}

\* an event as the remote's join returns it for a query with relation fields
Joined(event, fields) ==
    LET nest(rel) ==
            IF NamesOf(fields, rel) # {}
            THEN AttachRows(OrEmptyArray(event[IdFieldOf(rel)]), RemoteIds,
                            NamesOf(fields, rel))
            ELSE JUndef
    IN  [event EXCEPT !.contacts = nest("contacts"), !.companies = nest("companies")]

\* the handler's result after deduplication (lines 226-272 and 300-356): the
\* heap it leaves and what it renders
ResultOf(args, h, events, cap, total) ==
    LET r == IF DedupEnabled(args) /\ Len(events) > 0
             THEN deduplicateCalendarEvents(h, events)
             ELSE [heap |-> h, events |-> events, duplicatesRemoved |-> 0]
        limit == Limit(args)
        trimmed == ~Truthy(args.fetchAll) /\ Len(r.events) > limit
        displayEvents == IF trimmed THEN SubSeq(r.events, 1, limit) ELSE r.events
        full == IF DedupEnabled(args) THEN FetchLimit(args) ELSE limit
        more == IF NumTruthy(total) THEN Offset(args) + Len(events) < total.n
                ELSE Len(events) = full
        hasMoreNote == IF DedupEnabled(args) THEN more \/ trimmed ELSE more
        some == Len(displayEvents) > 0
    IN  [heap |-> r.heap,
         result |-> [isError |-> FALSE,
                     displayEvents |-> displayEvents,
                     duplicatesRemoved |-> IF some THEN r.duplicatesRemoved ELSE 0,
                     truncated |-> some /\ Truthy(args.fetchAll) /\ cap,
                     more |-> some /\ ~Truthy(args.fetchAll) /\ hasMoreNote]]

\* the handler from the end of the fetch to its next await or its return
\* (lines 215-233, 292-307)
AfterFetch(h, events, cap, total) ==
    LET lookups == IF hFallback /\ Len(events) > 0
                   THEN LookupsOf(h, events, hArgs.include.a) ELSE <<>>
    IN  /\ hEvents' = events
        /\ hHitCap' = cap
        /\ hTotal' = total
        /\ hLookups' = [i \in 1..Len(lookups) |->
                           LookupRequest(lookups[i],
                                         AllIds(h, events, IdFieldOf(lookups[i])))]
        /\ hPending' = {lookups[i] : i \in 1..Len(lookups)}
        /\ UNCHANGED hSettled
        /\ IF Len(lookups) > 0
           THEN /\ heap' = h
                /\ hPc' = "awaitIncludes"
                /\ UNCHANGED hResult
           ELSE LET r == ResultOf(hArgs, h, events, cap, total)
                IN  /\ heap' = r.heap
                    /\ hPc' = "done"
                    /\ hResult' = r.result

\* the join that rejects as soon as one lookup fails
AfterLookupFailFast(h, pending, settled) ==
    /\ hPending' = pending
    /\ hSettled' = hSettled \cup {settled}
    /\ heap' = h
    /\ IF ~settled.ok
       THEN /\ hPc' = "done"
            /\ hResult' = [isError |-> TRUE, displayEvents |-> <<>>, duplicatesRemoved |-> 0,
                           truncated |-> FALSE, more |-> FALSE]
       ELSE IF pending = {}
            THEN /\ hPc' = "done"
                 /\ hResult' = ResultOf(hArgs, h, hEvents, hHitCap, hTotal).result
            ELSE UNCHANGED <<hPc, hResult>>

\* the handler once a lookup has settled: it goes on when Promise.all has
\* all of them (lines 107, 226-272, 300-356)
AfterLookup(h, pending, settled) ==
    /\ hPending' = pending
    /\ hSettled' = hSettled \cup {settled}
    /\ IF pending = {}
       THEN LET r == ResultOf(hArgs, h, hEvents, hHitCap, hTotal)
            IN  /\ heap' = r.heap
                /\ hPc' = "done"
                /\ hResult' = r.result
       ELSE /\ heap' = h
            /\ UNCHANGED <<hPc, hResult>>

(***************************************************************************)
(* Inputs of the list handler                                              *)
(***************************************************************************)
ArgWhere ==
    {JUndef, JObj(<<>>), JObj(<<Prop("name", JStr("Weekly Sync"))>>),
     JObj(<<Prop("startTime", JObj(<<Prop("$gte", JStr("2026-02-02")),
                                    Prop("$lte", JStr("2026-02-08"))>>))>>)}
ArgOrderBy == {JUndef, JObj(<<Prop("startTime", JStr("asc"))>>)}
ArgInclude ==
    {JUndef, JArr(<<>>), JArr(<<"contacts">>), JArr(<<"companies", "contacts">>),
     JArr(<<"tasks">>), JArr(<<"owners">>)}
ArgFields == {JUndef, JFields(<<Field("id"), Field("name"), Field("contactIds")>>)}
ArgFlag == {JUndef, JBool(FALSE)}
ArgFetchAll == {JUndef, JBool(TRUE)}
ArgDeduplicate == {JUndef, JBool(FALSE)}

\* the events, the totals and the unfound ids the remote may answer with
RemoteEvents == <<RecordA, RecordPadded, RecordEmptyName>>
\* the n records that follow the first start ones, around the collection
EventsPage(start, n) ==
    [i \in 1..n |-> RemoteEvents[((start + i - 1) % Len(RemoteEvents)) + 1]]
HandlerTotals == {JUndef, JNum(2)}
Unfound == {{}, {"ct-2", "co-1"}}

\* the handler up to its first request (lines 163-206, 276-291)
InitList ==
    /\ WhereIdle /\ FetchIdle /\ DedupIdle /\ DealsIdle /\ ApiIdle /\ ToolsIdle /\ PagesIdle
    /\ \E w \in ArgWhere, o \in ArgOrderBy, i \in ArgInclude, f \in ArgFields,
          x \in ArgFlag, a \in ArgFetchAll, d \in ArgDeduplicate :
          hArgs = [where |-> w, orderBy |-> o, include |-> i, fields |-> f,
                   excludeNullDates |-> x, fetchAll |-> a, deduplicate |-> d,
                   limit |-> JUndef, offset |-> JUndef]
    /\ hWhere = EffectiveWhere(hArgs)
    /\ hFallback = UseIncludeFallback(hArgs, hWhere)
    /\ hFields = BaseFields(hArgs, hFallback)
    /\ hQuery = IF Truthy(hArgs.fetchAll)
                THEN PageQuery(hWhere, hArgs.orderBy, hFields, 0)
                ELSE StandardQuery(hArgs, hWhere, hFields)
    /\ hPc = "awaitEvents"
    /\ hEvents = <<>> /\ hOffset = 0 /\ hHitCap = FALSE /\ hTotal = JUndef
    /\ hPending = {} /\ hLookups = <<>> /\ hSettled = {} /\ hResult = JUndef

\* the response to the base request arrives (lines 207-233, 292-307)
EventsResponse ==
    /\ hPc = "awaitEvents"
    /\ \E n \in 0..MaxPage, total \in HandlerTotals, start \in 0..(Len(RemoteEvents) - 1) :
          LET page == EventsPage(start, n)
              h == heap \o [i \in 1..n |-> Joined(page[i], GetKey(hQuery.o, "fields"))]
              pageEvents == [i \in 1..n |-> Len(heap) + i]
          IN  IF Truthy(hArgs.fetchAll)
              THEN LET events == hEvents \o pageEvents
                       offset == hOffset + Len(pageEvents)
                       more == HasMoreAfter(total, offset, Len(pageEvents))
                   IN  /\ hOffset' = offset
                       /\ IF LoopContinues(more, events)
                          THEN /\ heap' = h
                               /\ hEvents' = events
                               /\ hTotal' = total
                               /\ hQuery' = PageQuery(hWhere, hArgs.orderBy, hFields, offset)
                               /\ UNCHANGED <<hPc, hHitCap, hPending, hLookups, hSettled, hResult>>
                          ELSE /\ AfterFetch(h, TrimToCap(events), HitCapOf(events), total)
                               /\ UNCHANGED hQuery
              ELSE /\ AfterFetch(h, pageEvents, FALSE, total)
                   /\ UNCHANGED <<hOffset, hQuery>>
    /\ UNCHANGED <<hArgs, hWhere, hFallback, hFields>>
    /\ UNCHANGED <<dIn, dGiven, dRes, dFirst, dRes2, whereVars, fetchVars,
                   dealVars, apiVars, toolVars, pageVars>>

\* the base request fails: the handler's catch returns an error (lines 357-365)
EventsFailure ==
    /\ hPc = "awaitEvents"
    /\ hPc' = "done"
    /\ hResult' = [isError |-> TRUE, displayEvents |-> <<>>, duplicatesRemoved |-> 0,
                   truncated |-> FALSE, more |-> FALSE]
    /\ UNCHANGED <<hArgs, hWhere, hFallback, hFields, hQuery, hEvents, hOffset,
                   hHitCap, hTotal, hPending, hLookups, hSettled>>
    /\ UNCHANGED <<dedupVars, whereVars, fetchVars,
                   dealVars, apiVars, toolVars, pageVars>>

\* the bulk lookup of one relation returns (lines 62-69, 90-97)
LookupResponse ==
    /\ hPc = "awaitIncludes"
    /\ \E rel \in hPending, unfound \in Unfound :
          LET req == hLookups[CHOOSE i \in 1..Len(hLookups) : hLookups[i].path = PathOf(rel)]
              asked == GetKey(GetKey(GetKey(req.query.o, "where").j.o, "id").o, "$in").a
              found == {asked[i].s : i \in 1..Len(asked)} \ unfound
              fields == GetKey(req.query.o, "fields").f
              names == {fields[i].name : i \in 1..Len(fields)}
          IN  AfterLookup(AttachRelation(heap, hEvents, rel, found, names),
                          hPending \ {rel},
                          [rel |-> rel, ok |-> TRUE, found |-> found])
    /\ UNCHANGED <<hArgs, hWhere, hFallback, hFields, hQuery, hEvents, hOffset,
                   hHitCap, hTotal, hLookups>>
    /\ UNCHANGED <<dIn, dGiven, dRes, dFirst, dRes2, whereVars, fetchVars,
                   dealVars, apiVars, toolVars, pageVars>>

\* the bulk lookup of one relation fails: its catch swallows the error
\* (lines 70-72, 98-100)
LookupFailure ==
    /\ hPc = "awaitIncludes"
    /\ \E rel \in hPending :
          AfterLookup(heap, hPending \ {rel}, [rel |-> rel, ok |-> FALSE, found |-> {}])
    /\ UNCHANGED <<hArgs, hWhere, hFallback, hFields, hQuery, hEvents, hOffset,
                   hHitCap, hTotal, hLookups>>
    /\ UNCHANGED <<dIn, dGiven, dRes, dFirst, dRes2, whereVars, fetchVars,
                   dealVars, apiVars, toolVars, pageVars>>

NextList == EventsResponse \/ EventsFailure \/ LookupResponse \/ LookupFailure

SpecList == InitList /\ [][NextList]_vars

(***************************************************************************)
(* The relation strategy of the list handler                               *)
(***************************************************************************)
\* the fields of a sent query, as a sequence of items
SentFields(query) ==
    LET f == GetKey(query.o, "fields") IN IF f.t = "fields" THEN f.f ELSE <<>>

\* the foreign keys of a relation over the fetched events
ForeignKeys(rel) ==
    UNION {{OrEmptyArray(heap[hEvents[i]][IdFieldOf(rel)])[j] :
               j \in 1..Len(OrEmptyArray(heap[hEvents[i]][IdFieldOf(rel)]))} :
           i \in 1..Len(hEvents)}

\* the ids a lookup request asks for
AskedIds(req) == GetKey(GetKey(GetKey(req.query.o, "where").j.o, "id").o, "$in").a

LookupsFor(rel) == {i \in 1..Len(hLookups) : hLookups[i].path = PathOf(rel)}

\* C10: with a non-empty include list the relation field lists are appended
\* to the base query's fields and no lookup is issued exactly when the
\* effective filter and orderBy are both absent; otherwise no base query
\* carries a relation field, and once the events are fetched each requested
\* relation among contacts and companies is looked up by one $in request over
\* the deduplicated foreign keys of the fetched events (by none when the
\* events carry no foreign key of it)
C10_StrategyChoice ==
    (hPc # "idle" /\ HasInclude(hArgs)) =>
        LET filterAbsent == hArgs.where = JUndef /\ hArgs.excludeNullDates = JBool(FALSE)
            sortAbsent == hArgs.orderBy = JUndef
            asked == SelectSeq(hArgs.include.a, LAMBDA name : name \in RelationNames)
            base == IF hArgs.fields = JUndef THEN DefaultFields.f ELSE hArgs.fields.f
        IN  IF filterAbsent /\ sortAbsent
            THEN /\ SentFields(hQuery) = base \o JoinFields(asked)
                 /\ hLookups = <<>>
            ELSE /\ \A j \in 1..Len(SentFields(hQuery)) : SentFields(hQuery)[j].rel = ""
                 /\ hPc = "awaitEvents" => hLookups = <<>>
                 /\ (hPc = "awaitIncludes" \/ (hPc = "done" /\ ~hResult.isError)) =>
                       \A rel \in {"contacts", "companies"} :
                          IF Includes(hArgs.include.a, rel) /\ ForeignKeys(rel) # {}
                          THEN /\ Cardinality(LookupsFor(rel)) = 1
                               /\ \A i \in LookupsFor(rel) :
                                     LET ids == AskedIds(hLookups[i])
                                     IN  /\ {ids[j].s : j \in 1..Len(ids)} = ForeignKeys(rel)
                                         /\ Len(ids) = Cardinality(ForeignKeys(rel))
                          ELSE LookupsFor(rel) = {}

\* both relations were looked up for two fetched events that share a contact,
\* the filter being only the injected default startTime
C10_Witness ==
    /\ hPc = "done" /\ ~hResult.isError
    /\ hArgs.where = JUndef /\ hArgs.orderBy = JUndef
    /\ hArgs.include = JArr(<<"companies", "contacts">>)
    /\ Len(hEvents) = 2 /\ Len(hLookups) = 2
    /\ Cardinality(ForeignKeys("contacts")) = 2
    /\ Len(FlatMapIds(heap, hEvents, "contactIds")) = 3

(***************************************************************************)
(* Partial failure of the relation lookups                                 *)
(***************************************************************************)
Identities(events) == {EventKey(heap[events[i]]) : i \in 1..Len(events)}

\* what a successful lookup of rel attaches to an event
Attached(event, rel, found) ==
    LET ids == SelectSeq(OrEmptyArray(event[IdFieldOf(rel)]), LAMBDA id : id \in found)
        names == {LookupFields(rel).f[i].name : i \in 1..Len(LookupFields(rel).f)}
    IN  JArr([i \in 1..Len(ids) |-> [n \in names |-> RemoteRow(ids[i])[n]]])

\* C11: when a relation's lookup has failed the handler returns without
\* isError, it returns every fetched event (all of them without
\* deduplication, one per identity with it), no event carries the failed
\* relation, and every fetched event carries the records the other
\* relation's successful lookup found for its foreign keys
C11_PartialFailure ==
    (hPc = "done" /\ \E s \in hSettled : ~s.ok) =>
        /\ ~hResult.isError
        /\ IF DedupEnabled(hArgs)
           THEN /\ Identities(hResult.displayEvents) = Identities(hEvents)
                /\ Len(hResult.displayEvents) = Cardinality(Identities(hEvents))
           ELSE hResult.displayEvents = hEvents
        /\ \A s \in hSettled :
              /\ ~s.ok =>
                    /\ \A i \in 1..Len(hEvents) : heap[hEvents[i]][s.rel] = JUndef
                    /\ \A i \in 1..Len(hResult.displayEvents) :
                          heap[hResult.displayEvents[i]][s.rel] = JUndef
              /\ s.ok =>
                    /\ \A i \in 1..Len(hEvents) :
                          heap[hEvents[i]][s.rel] = Attached(heap[hEvents[i]], s.rel, s.found)
                    /\ \A i \in 1..Len(hResult.displayEvents) :
                          heap[hResult.displayEvents[i]][s.rel].t = "arr"

\* the contacts lookup failed before or after the companies lookup returned
\* records for two fetched events
C11_Witness ==
    /\ hPc = "done"
    /\ Len(hEvents) >= 2
    /\ [rel |-> "contacts", ok |-> FALSE, found |-> {}] \in hSettled
    /\ \E s \in hSettled : s.rel = "companies" /\ s.ok /\ s.found # {}
    /\ \E i \in 1..Len(hEvents) :
          /\ heap[hEvents[i]].companies.t = "arr"
          /\ Len(heap[hEvents[i]].companies.a) > 0

(***************************************************************************)
(* The two paths of a relation: formatIncludedRelations on their records   *)
(***************************************************************************)
\* record[name] || default on a record of the remote
FieldOr(record, name, default) ==
    IF name \in DOMAIN record /\ record[name] # "" THEN record[name] ELSE default

\* the name formatIncludedRelations shows for an item of a relation
DisplayedName(rel, item) ==
    IF rel = "contacts"
    THEN <<FieldOr(item, "firstName", ""), " ", FieldOr(item, "lastName", "")>>
    ELSE <<FieldOr(item, "name", "N/A")>>

\* the record the remote's join nests under rel for the id, for the relation
\* fields buildIncludeFields appends
InlineRecord(rel, id) ==
    Joined([contactIds |-> JArr(<<id>>), companyIds |-> JArr(<<id>>),
            contacts |-> JUndef, companies |-> JUndef],
           buildIncludeFields(<<rel>>, DefaultFields))[rel].a[1]

\* the records attached to the event objects under rel
AttachedItems(rel) ==
    UNION {{heap[r][rel].a[i] : i \in 1..Len(heap[r][rel].a)} :
           r \in {q \in 1..Len(heap) : heap[q][rel].t = "arr"}}

\* C12: a record attached under contacts or companies, by the bulk lookup
\* or by the inline join of a request, has the fields and the displayed name
\* of the record the inline join nests for the same id
C12_SameRecordBothPaths ==
    \A rel \in {"contacts", "companies"} :
        \A item \in AttachedItems(rel) :
            /\ DOMAIN item = DOMAIN InlineRecord(rel, item.id)
            /\ DisplayedName(rel, item) = DisplayedName(rel, InlineRecord(rel, item.id))

\* the lookups attached a contact and a company
C12_Witness ==
    /\ hFallback /\ hPc = "done"
    /\ \E item \in AttachedItems("contacts") : DisplayedName("contacts", item) = <<"Jane", " ", "Doe">>
    /\ \E item \in AttachedItems("companies") : DisplayedName("companies", item) = <<"Acme Corp">>

(***************************************************************************)
(* services/api.ts: ensureWorkspaceId, resolveStageName and                *)
(* fetchCompaniesByIds with the caches of the module                       *)
(***************************************************************************)
\* response.data.data || response.data
DataOrBody(body) ==
    IF body.t = "obj" THEN OrElse(GetKey(body.o, "data"), body) ELSE body

\* response.data.data || []
DataOrEmpty(body) ==
    IF body.t = "obj" THEN OrElse(GetKey(body.o, "data"), JArr(<<>>)) ELSE JArr(<<>>)

\* o?.f
Optional(o, f) == IF o.t = "obj" THEN GetKey(o.o, f) ELSE JUndef

\* the workspace ensureWorkspaceId settles on (lines 215-224), without the
\* preferred name
SelectWorkspaceFirst(workspaces, preferredName) == workspaces[1]

\* the workspace ensureWorkspaceId settles on (lines 215-224)
SelectWorkspace(workspaces, preferredName) ==
    LET found == {i \in 1..Len(workspaces) : GetKey(workspaces[i].o, "name") = preferredName}
    IN  IF Truthy(preferredName) /\ found # {}
        THEN workspaces[CHOOSE i \in found : \A j \in found : i <= j]
        ELSE workspaces[1]

\* ensureWorkspaceId from the answer to its request on (lines 210-229): the
\* id it caches and returns, or threw when it throws
WorkspaceFrom(body, preferredName) ==
    LET workspaces == DataOrBody(body)
    IN  IF workspaces.t # "arr" THEN [threw |-> TRUE]
        ELSE IF Len(workspaces.a) = 0 THEN [threw |-> TRUE]
        ELSE [threw |-> FALSE,
              id |-> GetKey(SelectWorkspace(workspaces.a, preferredName).o, "id")]

\* a Map, as its entries in insertion order
JMap(m) == [t |-> "map", m |-> m]

\* stageMap.get(stageId) with the || stageId left out
StageNameInNoDefault(stageMap, stageId) == GetKey(stageMap.m, stageId)

\* stageMap.get(stageId) || stageId (lines 151, 168)
StageNameIn(stageMap, stageId) == OrElse(GetKey(stageMap.m, stageId), stageId)

\* the cache test with the cache never found populated
CacheHitNever(stages) == FALSE

\* if (cachedPipelineStages) (line 151): a Map, even an empty one, is truthy
CacheHit(stages) == stages # JNull

\* the loop over stages (lines 164-166): the Map, or threw when a stage is
\* null or undefined
RECURSIVE AddStages(_, _)
AddStages(stageMap, stages) ==
    IF stages = <<>> THEN [threw |-> FALSE, map |-> JMap(stageMap)]
    ELSE IF Head(stages).t # "obj" THEN [threw |-> TRUE, map |-> JMap(stageMap)]
    ELSE AddStages(SetKey(stageMap, GetKey(Head(stages).o, "id"),
                          GetKey(Head(stages).o, "name")),
                   Tail(stages))

\* resolveStageName keeping the stages read before the loop threw
StageMapFromPartial(body) ==
    LET stages == DataOrBody(body)
    IN  IF stages.t # "arr" THEN [threw |-> TRUE, map |-> JMap(<<>>)]
        ELSE [threw |-> FALSE, map |-> AddStages(<<>>, stages.a).map]

\* resolveStageName from the answer to its request on (lines 162-168)
StageMapFrom(body) ==
    LET stages == DataOrBody(body)
    IN  IF stages.t # "arr" THEN [threw |-> TRUE, map |-> JMap(<<>>)]
        ELSE AddStages(<<>>, stages.a)

StageMapOf(stages) == AddStages(<<>>, stages).map

\* the loop over companies (lines 189-194): the Map as far as it got, and
\* threw when a company is null or undefined
RECURSIVE AddCompanyRows(_, _)
AddCompanyRows(map, companies) ==
    IF companies = <<>> THEN [threw |-> FALSE, map |-> JMap(map)]
    ELSE IF Head(companies).t # "obj" THEN [threw |-> TRUE, map |-> JMap(map)]
    ELSE LET c == Head(companies).o
             city == OrElse(GetKey(c, "city"), Optional(GetKey(c, "location"), "city"))
             country == OrElse(GetKey(c, "country"),
                               Optional(GetKey(c, "location"), "country"))
         IN  AddCompanyRows(SetKey(map, GetKey(c, "id"),
                                   [name |-> GetKey(c, "name"), city |-> city,
                                    country |-> country]),
                            Tail(companies))

\* fetchCompaniesByIds from the answer to its request on (lines 187-200)
CompanyMapFrom(body) ==
    LET companies == DataOrEmpty(body)
    IN  IF companies.t # "arr" THEN JMap(<<>>) ELSE AddCompanyRows(<<>>, companies.a).map

CompanyMapOf(companies) == AddCompanyRows(<<>>, companies).map

\* companyIds.filter(Boolean), a repeated id kept
UniqueIdsKeepsRepeats(companyIds) == SelectSeq(companyIds, Truthy)

\* [...new Set(companyIds.filter(Boolean))] (line 177)
UniqueIds(companyIds) == SetSpread(SelectSeq(companyIds, Truthy))

\* the requests of the three functions (lines 158-161, 182-187, 209)
WorkspacesRequest == [path |-> "/api/workspaces", query |-> JUndef, answer |-> JUndef]

StagesRequest(workspaceId) ==
    [path |-> "/api/pipelineStages",
     query |-> JObj(<<Prop("where",
                          JText(Stringify(JObj(<<Prop("workspaceId", workspaceId)>>))))>>),
     answer |-> JUndef]

CompaniesRequest(workspaceId, uniqueIds) ==
    [path |-> "/api/companies",
     query |-> buildQueryParams(ListParams(workspaceId,
                   JObj(<<Prop("id", JObj(<<Prop("$in", JArr(uniqueIds))>>))>>),
                   JNum(Len(uniqueIds)), JUndef, JUndef, JUndef)),
     answer |-> JUndef]

\* the request a lookup sends once it has the workspace id
LookupRequestOf(call, workspaceId) ==
    IF call.op = "resolveStageName" THEN StagesRequest(workspaceId)
    ELSE CompaniesRequest(workspaceId, UniqueIds(call.arg))

\* what the catch block of a lookup returns before any record was read:
\* the stage id (line 170), the empty map (lines 196-200)
Fallback(call) == IF call.op = "resolveStageName" THEN call.arg ELSE JMap(<<>>)

\* createApiClient throws without a key (lines 33-37)
NoApiKey == ~Truthy(env.ZERO_API_KEY)

Returns(value) == sPc' = "returned" /\ sOut' = [threw |-> FALSE, value |-> value]

Throws == sPc' = "returned" /\ sOut' = [threw |-> TRUE]

\* the last request of the call with its answer
Answered(requests, answer) == [requests EXCEPT ![Len(requests)].answer = answer]

\* a lookup from the workspace id on: createApiClient and the request
\* (lines 157-161, 180-187)
AfterWorkspace(call, requests, workspaceId) ==
    IF NoApiKey
    THEN Returns(Fallback(call)) /\ sRequests' = requests
    ELSE /\ sRequests' = Append(requests, LookupRequestOf(call, workspaceId))
         /\ sPc' = "awaitLookup"
         /\ sOut' = JUndef

\* ensureWorkspaceId up to its request (lines 204-209) inside the call
EnterWorkspace(call) ==
    IF Truthy(cachedWorkspaceId)
    THEN IF call.op = "ensureWorkspaceId"
         THEN Returns(cachedWorkspaceId) /\ sRequests' = <<>>
         ELSE AfterWorkspace(call, <<>>, cachedWorkspaceId)
    ELSE IF NoApiKey
    THEN /\ sRequests' = <<>>
         /\ IF call.op = "ensureWorkspaceId" THEN Throws ELSE Returns(Fallback(call))
    ELSE /\ sRequests' = <<WorkspacesRequest>>
         /\ sPc' = "awaitWorkspaces"
         /\ sOut' = JUndef

\* ensureWorkspaceId throws inside the call
WorkspaceThrows(requests) ==
    /\ sRequests' = requests
    /\ IF sCall.op = "ensureWorkspaceId" THEN Throws ELSE Returns(Fallback(sCall))
    /\ UNCHANGED cachedWorkspaceId

(***************************************************************************)
(* Inputs of the services                                                  *)
(***************************************************************************)
MaxCalls == 3

Wrapped(list) == JObj(<<Prop("data", JArr(list))>>)

ErrorBody == JObj(<<Prop("error", JStr("Unauthorized"))>>)

Workspace(id, name) == JObj(<<Prop("id", JStr(id)), Prop("name", JStr(name))>>)

WorkspaceBodies ==
    {Wrapped(<<>>), JArr(<<>>), ErrorBody,
     Wrapped(<<Workspace("ws-1", "Main"), Workspace("ws-2", "Sales")>>),
     JArr(<<Workspace("ws-2", "Sales"), Workspace("ws-1", "Main"),
            Workspace("ws-3", "Main")>>)}

PreferredNames == {JUndef, JStr("Main"), JStr("Other")}

Stage(id, name) == JObj(<<Prop("id", JStr(id)), Prop("name", JStr(name))>>)

RemoteStages == <<Stage("st-1", "Qualified"), Stage("st-2", "Won"), Stage("st-3", "")>>

StageBodies ==
    {Wrapped(RemoteStages), JArr(SubSeq(RemoteStages, 1, 1)), ErrorBody,
     Wrapped(<<Stage("st-1", "Qualified"), JNull>>)}

StageIds == {JUndef, JStr(""), JStr("st-1"), JStr("st-2"), JStr("st-3"), JStr("st-9")}

Company(id, name, city, location) ==
    JObj(<<Prop("id", JStr(id)), Prop("name", name), Prop("city", city),
           Prop("location", location)>>)

RemoteCompanies ==
    <<Company("co-1", JStr("Acme Corp"), JStr("Berlin"), JUndef),
      Company("co-2", JStr("Beta Inc"), JUndef,
              JObj(<<Prop("city", JStr("Oslo")), Prop("country", JStr("NO"))>>)),
      Company("co-3", JUndef, JUndef, JUndef)>>

CompanyBodies ==
    {Wrapped(RemoteCompanies), JObj(<<>>), ErrorBody,
     Wrapped(<<RemoteCompanies[1], JNull, RemoteCompanies[2]>>)}

CompanyIdLists ==
    {<<>>, <<JUndef, JStr("")>>, <<JStr("co-1"), JStr("co-2"), JStr("co-1")>>,
     <<JStr("co-2"), JUndef, JStr("co-9")>>}

ServiceCalls ==
    {[op |-> "ensureWorkspaceId", arg |-> JUndef]}
    \cup {[op |-> "resolveStageName", arg |-> id] : id \in StageIds}
    \cup {[op |-> "fetchCompaniesByIds", arg |-> ids] : ids \in CompanyIdLists}

InitApi ==
    /\ WhereIdle /\ FetchIdle /\ DedupIdle /\ ListIdle /\ DealsIdle /\ ToolsIdle /\ PagesIdle
    /\ \E key \in {JUndef, JStr("key")}, name \in PreferredNames :
          env = [ZERO_API_KEY |-> key, ZERO_WORKSPACE_NAME |-> name]
    /\ cachedWorkspaceId = JNull /\ cachedPipelineStages = JNull
    /\ sCall = JUndef /\ sPc = "idle" /\ sOut = JUndef /\ sRequests = <<>> /\ sCalls = 0

\* a caller calls one of the three functions: the call runs to its first
\* request or to its return; sCall keeps the caches the call found
Call ==
    /\ sPc \in {"idle", "returned"}
    /\ sCalls < MaxCalls
    /\ sCalls' = sCalls + 1
    /\ \E call \in ServiceCalls :
          /\ sCall' = [op |-> call.op, arg |-> call.arg,
                       workspaceId |-> cachedWorkspaceId, stages |-> cachedPipelineStages]
          /\ CASE call.op = "ensureWorkspaceId" -> EnterWorkspace(call)
               [] call.op = "resolveStageName" ->
                    IF ~Truthy(call.arg)
                    THEN Returns(JStr("N/A")) /\ sRequests' = <<>>
                    ELSE IF CacheHit(cachedPipelineStages)
                    THEN Returns(StageNameIn(cachedPipelineStages, call.arg))
                         /\ sRequests' = <<>>
                    ELSE EnterWorkspace(call)
               [] call.op = "fetchCompaniesByIds" ->
                    IF Len(UniqueIds(call.arg)) = 0
                    THEN Returns(JMap(<<>>)) /\ sRequests' = <<>>
                    ELSE EnterWorkspace(call)
    /\ UNCHANGED <<env, cachedWorkspaceId, cachedPipelineStages, whereVars, fetchVars,
                   dedupVars, listVars, dealVars, toolVars, pageVars>>

\* the workspaces request is answered (lines 210-229)
WorkspacesResponse ==
    /\ sPc = "awaitWorkspaces"
    /\ \E body \in WorkspaceBodies :
          LET requests == Answered(sRequests, [ok |-> TRUE, body |-> body])
              workspace == WorkspaceFrom(body, env.ZERO_WORKSPACE_NAME)
          IN  IF workspace.threw
              THEN WorkspaceThrows(requests)
              ELSE /\ cachedWorkspaceId' = workspace.id
                   /\ IF sCall.op = "ensureWorkspaceId"
                      THEN Returns(workspace.id) /\ sRequests' = requests
                      ELSE AfterWorkspace(sCall, requests, workspace.id)
    /\ UNCHANGED <<env, cachedPipelineStages, sCall, sCalls, whereVars, fetchVars,
                   dedupVars, listVars, dealVars, toolVars, pageVars>>

\* the workspaces request fails (line 209)
WorkspacesFailure ==
    /\ sPc = "awaitWorkspaces"
    /\ WorkspaceThrows(Answered(sRequests, [ok |-> FALSE]))
    /\ UNCHANGED <<env, cachedPipelineStages, sCall, sCalls, whereVars, fetchVars,
                   dedupVars, listVars, dealVars, toolVars, pageVars>>

\* the stages request is answered (lines 162-168)
StagesResponse ==
    /\ sPc = "awaitLookup" /\ sCall.op = "resolveStageName"
    /\ \E body \in StageBodies :
          LET stages == StageMapFrom(body)
          IN  /\ sRequests' = Answered(sRequests, [ok |-> TRUE, body |-> body])
              /\ IF stages.threw
                 THEN Returns(sCall.arg) /\ UNCHANGED cachedPipelineStages
                 ELSE /\ cachedPipelineStages' = stages.map
                      /\ Returns(StageNameIn(stages.map, sCall.arg))
    /\ UNCHANGED <<env, cachedWorkspaceId, sCall, sCalls, whereVars, fetchVars,
                   dedupVars, listVars, dealVars, toolVars, pageVars>>

\* the companies request is answered (lines 187-200)
CompaniesResponse ==
    /\ sPc = "awaitLookup" /\ sCall.op = "fetchCompaniesByIds"
    /\ \E body \in CompanyBodies :
          /\ sRequests' = Answered(sRequests, [ok |-> TRUE, body |-> body])
          /\ Returns(CompanyMapFrom(body))
    /\ UNCHANGED <<env, cachedWorkspaceId, cachedPipelineStages, sCall, sCalls,
                   whereVars, fetchVars, dedupVars, listVars, dealVars, toolVars, pageVars>>

\* the request of a lookup fails (lines 169-171, 195-200)
LookupFails ==
    /\ sPc = "awaitLookup"
    /\ sRequests' = Answered(sRequests, [ok |-> FALSE])
    /\ Returns(Fallback(sCall))
    /\ UNCHANGED <<env, cachedWorkspaceId, cachedPipelineStages, sCall, sCalls,
                   whereVars, fetchVars, dedupVars, listVars, dealVars, toolVars, pageVars>>

\* clearWorkspaceCaches (lines 135-137), between two calls
clearWorkspaceCaches ==
    /\ sPc \in {"idle", "returned"}
    /\ cachedPipelineStages # JNull
    /\ cachedPipelineStages' = JNull
    /\ sPc' = "idle"
    /\ UNCHANGED <<env, cachedWorkspaceId, sCall, sOut, sRequests, sCalls,
                   whereVars, fetchVars, dedupVars, listVars, dealVars, toolVars, pageVars>>

NextApi ==
    \/ Call
    \/ WorkspacesResponse
    \/ WorkspacesFailure
    \/ StagesResponse
    \/ CompaniesResponse
    \/ LookupFails
    \/ clearWorkspaceCaches

SpecApi == InitApi /\ [][NextApi]_vars

(***************************************************************************)
(* tools/active-deals.ts: zero_find_active_deals.handler                   *)
(***************************************************************************)
SOURCES == <<"activities", "emailThreads", "calendarEvents", "issues">>

SOURCE_DATE_FIELDS(source) ==
    CASE source = "activities" -> "time"
      [] source = "emailThreads" -> "lastEmailTime"
      [] source = "calendarEvents" -> "startTime"
      [] source = "issues" -> "createdAt"

DefaultSourceLimit == 200

\* args.sources || [...SOURCES]
ActiveSources(args) == IF Truthy(args.sources) THEN args.sources.a ELSE SOURCES

\* args.limit || 200
PerSourceLimit(args) == OrElse(args.limit, JNum(DefaultSourceLimit))

\* the date filter of a source (lines 49-54)
SourceWhere(args, source) ==
    LET gte == <<Prop("$gte", args.since)>>
        cond == IF Truthy(args.until) THEN Append(gte, Prop("$lt", args.until)) ELSE gte
    IN  JObj(<<Prop(SOURCE_DATE_FIELDS(source), JObj(cond))>>)

\* ['id', 'companyIds', dateField].join(',')
SourceFields(source) ==
    JFields(<<Field("id"), Field("companyIds"), Field(SOURCE_DATE_FIELDS(source))>>)

\* the list request of a source (lines 56-67)
SourceRequest(args, workspaceId, source) ==
    [path |-> <<"/api/", source>>,
     query |-> buildQueryParams(ListParams(workspaceId, SourceWhere(args, source),
                                           PerSourceLimit(args), JNum(0), JUndef,
                                           SourceFields(source)))]

\* what a source promise resolves to when its request succeeds (line 67)
SourceResult(source, response) ==
    [source |-> source, data |-> OrElse(response.data, JArr(<<>>)),
     total |-> response.total]

\* and when it fails (line 70)
SkippedSource(source) == [source |-> source, data |-> JArr(<<>>), total |-> JNum(0)]

\* a join that puts a settled promise behind the ones settled before it
SlotByArrival(position, arrival) == arrival

\* Promise.all puts the value of a promise at the position of the promise,
\* whatever the number of promises settled before it (line 75)
SlotOf(position, arrival) == position

summaryKey(source) ==
    CASE source = "activities" -> "activities"
      [] source = "emailThreads" -> "emails"
      [] source = "calendarEvents" -> "calendarEvents"
      [] source = "issues" -> "issues"

\* the characters of the timestamps in UTF-16 code unit order, which is the
\* order of < and > on strings, and in the order of the root collation, which
\* is the order of localeCompare
CodeUnits ==
    <<"+", "-", ".", "0", "1", "2", "3", "4", "5", "6", "7", "8", "9", ":", "T", "Z">>
Collation ==
    <<"-", ":", ".", "+", "0", "1", "2", "3", "4", "5", "6", "7", "8", "9", "T", "Z">>

RankIn(order, c) == CHOOSE i \in 1..Len(order) : order[i] = c

\* the sign of the comparison of two strings, first difference decides and a
\* proper prefix comes first
RECURSIVE CompareBy(_, _, _)
CompareBy(order, a, b) ==
    IF a = <<>> /\ b = <<>> THEN 0
    ELSE IF a = <<>> THEN -1
    ELSE IF b = <<>> THEN 1
    ELSE IF Head(a) = Head(b) THEN CompareBy(order, Tail(a), Tail(b))
    ELSE IF RankIn(order, Head(a)) < RankIn(order, Head(b)) THEN -1 ELSE 1

\* a > b
Greater(a, b) == CompareBy(CodeUnits, a.c, b.c) = 1

\* a.localeCompare(b)
localeCompare(a, b) == CompareBy(Collation, a.c, b.c)

\* the summary a company starts with (lines 97-102)
ZeroSummary ==
    [activities |-> 0, emails |-> 0, calendarEvents |-> 0, issues |-> 0,
     lastActivity |-> JUndef]

\* Array.isArray(item.companyIds) ? item.companyIds : []
itemCompanyIds(item) ==
    LET c == GetKey(item.o, "companyIds") IN IF c.t = "arr" THEN c.a ELSE <<>>

\* the body of the loop over itemCompanyIds, with the counter left alone when
\* the company is already in the Map
AddCompanyOncePerCompany(summaries, key, itemDate, companyId) ==
    LET existing == IF HasKey(summaries, companyId) THEN GetKey(summaries, companyId)
                    ELSE [ZeroSummary EXCEPT ![key] = 1]
        newer == Truthy(itemDate) /\ (~Truthy(existing.lastActivity)
                                      \/ Greater(itemDate, existing.lastActivity))
    IN  SetKey(summaries, companyId,
               IF newer THEN [existing EXCEPT !.lastActivity = itemDate] ELSE existing)

\* the body of the loop over itemCompanyIds (lines 96-109)
AddCompany(summaries, key, itemDate, companyId) ==
    LET existing == IF HasKey(summaries, companyId) THEN GetKey(summaries, companyId)
                    ELSE ZeroSummary
        counted == [existing EXCEPT ![key] = @ + 1]
        newer == Truthy(itemDate) /\ (~Truthy(counted.lastActivity)
                                      \/ Greater(itemDate, counted.lastActivity))
    IN  SetKey(summaries, companyId,
               IF newer THEN [counted EXCEPT !.lastActivity = itemDate] ELSE counted)

RECURSIVE AddCompanies(_, _, _, _)
AddCompanies(summaries, key, itemDate, ids) ==
    IF ids = <<>> THEN summaries
    ELSE AddCompanies(AddCompany(summaries, key, itemDate, Head(ids)), key, itemDate,
                      Tail(ids))

\* the loop over result.data (lines 90-111)
RECURSIVE AddItems(_, _, _, _)
AddItems(summaries, key, dateField, items) ==
    IF items = <<>> THEN summaries
    ELSE AddItems(AddCompanies(summaries, key, GetKey(Head(items).o, dateField),
                               itemCompanyIds(Head(items))),
                  key, dateField, Tail(items))

\* the loop over sourceResults (lines 87-112)
RECURSIVE AddResults(_, _)
AddResults(summaries, results) ==
    IF results = <<>> THEN summaries
    ELSE AddResults(AddItems(summaries, summaryKey(Head(results).source),
                             SOURCE_DATE_FIELDS(Head(results).source),
                             Head(results).data.a),
                    Tail(results))

\* companySummaries after the loops: the entries of the Map in insertion order
companySummaries(sourceResults) == AddResults(<<>>, sourceResults)

\* the message with the sources that returned records alone
NoActivityOmitsEmpty(args, sourceResults) ==
    [isError |-> FALSE, kind |-> "noActivity", since |-> args.since,
     checked |-> SelectSeq([i \in 1..Len(sourceResults) |->
                               [source |-> sourceResults[i].source,
                                records |-> Len(sourceResults[i].data.a)]],
                           LAMBDA c : c.records > 0)]

\* the message of an empty company set (lines 114-122)
NoActivity(args, sourceResults) ==
    [isError |-> FALSE, kind |-> "noActivity", since |-> args.since,
     checked |-> [i \in 1..Len(sourceResults) |->
                     [source |-> sourceResults[i].source,
                      records |-> Len(sourceResults[i].data.a)]]]

\* { ...o, ...more }
RECURSIVE Spread(_, _)
Spread(o, more) ==
    IF more = <<>> THEN o ELSE Spread(SetKey(o, Head(more).k, Head(more).v), Tail(more))

\* [...companySummaries.keys()]
ActiveCompanyIds(summaries) == [i \in 1..Len(summaries) |-> summaries[i].k]

\* the filter of the deals request (lines 126-129)
DealWhere(args, summaries) ==
    JObj(Spread(<<Prop("companyId",
                       JObj(<<Prop("$in", JArr(ActiveCompanyIds(summaries)))>>))>>,
                OrElse(args.dealWhere, JObj(<<>>)).o))

DealFields ==
    JFields(<<Field("id"), Field("name"), Field("value"), Field("stage"),
              Field("confidence"), Field("closeDate"), Field("companyId"),
              Field("createdAt"), Field("updatedAt")>>)

\* the deals request (lines 131-139)
DealRequest(args, workspaceId, summaries) ==
    [path |-> <<"/api/deals">>,
     query |-> buildQueryParams(ListParams(workspaceId, DealWhere(args, summaries),
                                           JNum(Len(summaries) * 5), JNum(0), JUndef,
                                           DealFields))]

\* the message of an empty deal list (lines 142-149)
NoDeals(args, summaries) ==
    [isError |-> FALSE, kind |-> "noDeals", since |-> args.since,
     companies |-> Len(summaries)]

\* the lookup that gives a deal of an unknown company the first summary
SummaryForAnyCompany(summaries, d) ==
    IF Truthy(d.companyId) /\ HasKey(summaries, d.companyId)
    THEN GetKey(summaries, d.companyId) ELSE summaries[1].v

\* d.companyId ? companySummaries.get(d.companyId) : undefined
SummaryFor(summaries, d) ==
    IF Truthy(d.companyId) THEN GetKey(summaries, d.companyId) ELSE JUndef

\* summary.lastActivity || ''
DateOf(item) == OrElse(item.summary.lastActivity, JChars(<<>>))

\* the comparator with its operands exchanged
ByLastActivityAscending(a, b) == localeCompare(DateOf(a), DateOf(b))

\* the comparator of the sort (lines 162-166)
ByLastActivity(a, b) == localeCompare(DateOf(b), DateOf(a))

\* Array.prototype.sort is stable: an element goes behind every element that
\* the comparator does not put after it
InsertSorted(sorted, x) ==
    LET n == Cardinality({i \in 1..Len(sorted) : ByLastActivity(sorted[i], x) <= 0})
    IN  SubSeq(sorted, 1, n) \o <<x>> \o SubSeq(sorted, n + 1, Len(sorted))

RECURSIVE Sort(_, _)
Sort(sorted, items) ==
    IF items = <<>> THEN sorted ELSE Sort(InsertSorted(sorted, Head(items)), Tail(items))

\* sortedDeals (lines 159-166)
SortedDeals(deals, stageNames, summaries) ==
    LET items == [i \in 1..Len(deals) |->
                     [deal |-> deals[i], stageName |-> stageNames[i],
                      summary |-> SummaryFor(summaries, deals[i])]]
    IN  Sort(<<>>, SelectSeq(items, LAMBDA item : item.summary # JUndef))

\* sourceStats (lines 190-194), an entry per source result
SourceStats(sourceResults) ==
    [i \in 1..Len(sourceResults) |->
        LET r == sourceResults[i]
        IN  [label |-> CASE r.source = "emailThreads" -> "emails"
                         [] r.source = "calendarEvents" -> "meetings"
                         [] OTHER -> r.source,
             records |-> Len(r.data.a),
             truncated |-> IF Truthy(r.total) /\ r.total.n > Len(r.data.a)
                           THEN r.total ELSE JUndef]]

\* what resolveStageName(d.stage) returns when it reads the stages of a
\* stage map, or of none because it could not fetch them (services/api.ts
\* lines 147-173)
StageNameOf(stages, stageId) ==
    IF ~Truthy(stageId) THEN JStr("N/A")
    ELSE IF stages = JNull THEN stageId
    ELSE StageNameIn(stages, stageId)

\* formatCompany (lines 172-177), without the location
formatCompany(companyMap, deal) ==
    LET enriched == IF Truthy(deal.companyId) THEN GetKey(companyMap.m, deal.companyId)
                    ELSE JUndef
    IN  IF enriched = JUndef THEN JStr("N/A")
        ELSE IF ~Truthy(enriched.name) THEN JStr("N/A") ELSE enriched.name

\* the markdown of the deal list (lines 196-212), as its parts
DealList(args, deals, stageNames, companyMap, summaries, sourceResults) ==
    LET sortedDeals == SortedDeals(deals, stageNames, summaries)
    IN  [isError |-> FALSE, kind |-> "deals", since |-> args.since,
         items |-> [i \in 1..Len(sortedDeals) |->
                       [deal |-> sortedDeals[i].deal,
                        stageName |-> sortedDeals[i].stageName,
                        company |-> formatCompany(companyMap, sortedDeals[i].deal),
                        summary |-> sortedDeals[i].summary]],
         stats |-> SourceStats(sourceResults)]

\* the result of the catch block (lines 220-228)
DealsError == [isError |-> TRUE, kind |-> "error"]

\* a join that rejects when a source request has failed
AfterSourcesAllOrNothing(results) ==
    /\ aResults' = results
    /\ aSummary' = <<>>
    /\ aDealQuery' = JUndef
    /\ IF \E i \in 1..Len(aServed') : ~aServed'[i].ok
       THEN aPc' = "done" /\ aResult' = DealsError
       ELSE aPc' = "awaitDeals" /\ aResult' = JUndef

\* the handler from the join of the source promises to its next await or
\* return (lines 75-140)
AfterSources(results) ==
    LET summaries == companySummaries(results)
    IN  /\ aResults' = results
        /\ aSummary' = summaries
        /\ IF Len(summaries) = 0
           THEN /\ aPc' = "done"
                /\ aResult' = NoActivity(aArgs, results)
                /\ aDealQuery' = JUndef
           ELSE /\ aPc' = "awaitDeals"
                /\ aResult' = JUndef
                /\ aDealQuery' = DealRequest(aArgs, JStr("ws-1"), summaries)

(***************************************************************************)
(* Inputs of zero_find_active_deals                                        *)
(***************************************************************************)
MaxStream == 2

\* 2026-02-0dThh:00:00Z
Stamp(d, h1, h2) ==
    JChars(<<"2", "0", "2", "6", "-", "0", "2", "-", "0", d, "T", h1, h2, ":", "0", "0",
             ":", "0", "0", "Z">>)

Ids(ids) == JArr([i \in 1..Len(ids) |-> JStr(ids[i])])

SourceItem(id, companyIds, dateField, date) ==
    JObj(<<Prop("id", JStr(id)), Prop("companyIds", companyIds), Prop(dateField, date)>>)

\* the records of a source at the remote, in the order it lists them
RemoteSource(source) ==
    CASE source = "activities" ->
           <<SourceItem("a-1", Ids(<<"co-1", "co-2">>), "time", Stamp("4", "1", "0")),
             SourceItem("a-2", Ids(<<"co-1", "co-1">>), "time", Stamp("5", "0", "9")),
             SourceItem("a-3", Ids(<<"co-3">>), "time", Stamp("4", "1", "4"))>>
      [] source = "emailThreads" ->
           <<SourceItem("e-1", Ids(<<"co-2">>), "lastEmailTime", Stamp("4", "1", "4")),
             SourceItem("e-2", JUndef, "lastEmailTime", Stamp("5", "0", "9")),
             SourceItem("e-3", Ids(<<"co-1">>), "lastEmailTime", Stamp("4", "1", "0"))>>
      [] source = "calendarEvents" ->
           <<SourceItem("c-1", Ids(<<"co-2", "co-3">>), "startTime", JUndef),
             SourceItem("c-2", Ids(<<>>), "startTime", Stamp("5", "0", "9")),
             SourceItem("c-3", Ids(<<"co-3">>), "startTime", Stamp("4", "1", "0"))>>
      [] source = "issues" ->
           <<SourceItem("i-1", JStr("co-1"), "createdAt", Stamp("5", "0", "9")),
             SourceItem("i-2", Ids(<<"co-3", "co-1">>), "createdAt", Stamp("4", "1", "4")),
             SourceItem("i-3", Ids(<<"co-2">>), "createdAt", Stamp("5", "0", "9"))>>

\* the bodies the remote can answer a source request with: no list at all, or
\* the first records of the source with the number of all its records
SourceResponses(source) ==
    {[data |-> JUndef, total |-> JUndef]}
    \cup {[data |-> JArr(SubSeq(RemoteSource(source), 1, n)),
           total |-> JNum(Len(RemoteSource(source)))] :
             n \in 0..IF MaxStream < Len(RemoteSource(source)) THEN MaxStream
                      ELSE Len(RemoteSource(source))}

Deal(id, stage, companyId) == [id |-> id, stage |-> stage, companyId |-> companyId]

RemoteDeals ==
    <<Deal("d-1", JStr("st-1"), JStr("co-3")), Deal("d-2", JStr("st-2"), JStr("co-1")),
      Deal("d-3", JStr("st-9"), JStr("co-2")), Deal("d-4", JUndef, JStr("co-1")),
      Deal("d-5", JStr("st-1"), JUndef), Deal("d-6", JStr("st-2"), JStr("co-9")),
      Deal("d-7", JStr("st-3"), JStr("co-3"))>>

Reverse(s) == [i \in 1..Len(s) |-> s[Len(s) + 1 - i]]

DealResponses ==
    {[data |-> JUndef], [data |-> JArr(<<>>)], [data |-> JArr(RemoteDeals)],
     [data |-> JArr(Reverse(RemoteDeals))]}

DealArgs(until, sources, dealWhere, limit) ==
    [since |-> JStr("2026-02-03"), until |-> until, sources |-> sources,
     dealWhere |-> dealWhere, limit |-> limit]

ArgDeals ==
    {DealArgs(JUndef, JUndef, JUndef, JUndef),
     DealArgs(JStr("2026-02-10"), JUndef, JObj(<<Prop("stage", JStr("st-1"))>>), JNum(1)),
     DealArgs(JStr("2026-02-10"), JArr(<<"issues", "activities">>), JUndef, JUndef),
     DealArgs(JUndef, JArr(<<>>), JUndef, JUndef),
     DealArgs(JUndef, JUndef, JObj(<<Prop("companyId", JStr("co-9"))>>), JUndef)}

InitDeals ==
    /\ WhereIdle /\ FetchIdle /\ DedupIdle /\ ListIdle /\ ApiIdle /\ ToolsIdle /\ PagesIdle
    /\ aArgs \in ArgDeals
    /\ aPc = "awaitWorkspace"
    /\ aRequests = <<>> /\ aPending = {} /\ aResults = <<>> /\ aServed = <<>>
    /\ aOvertaken = FALSE /\ aSummary = <<>> /\ aDealQuery = JUndef
    /\ aDealResponse = JUndef /\ aResult = JUndef

\* ensureWorkspaceId resolves: the source requests go out (lines 41-73)
WorkspaceResolved ==
    /\ aPc = "awaitWorkspace"
    /\ LET activeSources == ActiveSources(aArgs)
           n == Len(activeSources)
       IN  /\ aRequests' = [i \in 1..n |-> SourceRequest(aArgs, JStr("ws-1"), activeSources[i])]
           /\ aServed' = [i \in 1..n |-> JUndef]
           /\ IF n = 0
              THEN AfterSources(<<>>) /\ UNCHANGED aPending
              ELSE /\ aPending' = 1..n
                   /\ aResults' = [i \in 1..n |-> JUndef]
                   /\ aPc' = "awaitSources"
                   /\ UNCHANGED <<aSummary, aDealQuery, aResult>>
    /\ UNCHANGED <<aArgs, aOvertaken, aDealResponse, whereVars, fetchVars, dedupVars,
                   listVars, apiVars, toolVars, pageVars>>

\* ensureWorkspaceId or createApiClient throws (lines 41-42, 220-228)
WorkspaceFailure ==
    /\ aPc = "awaitWorkspace"
    /\ aPc' = "done"
    /\ aResult' = DealsError
    /\ UNCHANGED <<aArgs, aRequests, aPending, aResults, aServed, aOvertaken, aSummary,
                   aDealQuery, aDealResponse, whereVars, fetchVars, dedupVars, listVars,
                   apiVars, toolVars, pageVars>>

\* a source promise settles with r; the handler goes on when it was the last
Settle(i, served, r) ==
    LET arrival == Len(aRequests) - Cardinality(aPending) + 1
        results == [aResults EXCEPT ![SlotOf(i, arrival)] = r]
    IN  /\ aPending' = aPending \ {i}
        /\ aServed' = [aServed EXCEPT ![i] = served]
        /\ aOvertaken' = (aOvertaken \/ \E j \in aPending : j < i)
        /\ IF aPending' = {}
           THEN AfterSources(results)
           ELSE aResults' = results /\ UNCHANGED <<aPc, aSummary, aDealQuery, aResult>>
        /\ UNCHANGED <<aArgs, aRequests, aDealResponse, whereVars, fetchVars, dedupVars,
                       listVars, apiVars, toolVars, pageVars>>

\* the request of a source is answered (line 67)
SourceResponse ==
    /\ aPc = "awaitSources"
    /\ \E i \in aPending :
          \E response \in SourceResponses(ActiveSources(aArgs)[i]) :
             Settle(i, [ok |-> TRUE, response |-> response],
                    SourceResult(ActiveSources(aArgs)[i], response))

\* the request of a source fails (lines 68-71)
SourceFailure ==
    /\ aPc = "awaitSources"
    /\ \E i \in aPending :
          Settle(i, [ok |-> FALSE], SkippedSource(ActiveSources(aArgs)[i]))

\* the deals request is answered (lines 139-156)
DealsResponse ==
    /\ aPc = "awaitDeals"
    /\ \E response \in DealResponses :
          /\ aDealResponse' = [ok |-> TRUE, response |-> response]
          /\ IF Len(OrElse(response.data, JArr(<<>>)).a) = 0
             THEN aPc' = "done" /\ aResult' = NoDeals(aArgs, aSummary)
             ELSE aPc' = "awaitEnrich" /\ aResult' = JUndef
    /\ UNCHANGED <<aArgs, aRequests, aPending, aResults, aServed, aOvertaken, aSummary,
                   aDealQuery, whereVars, fetchVars, dedupVars, listVars, apiVars, toolVars, pageVars>>

\* the deals request fails (lines 139, 220-228)
DealsFailure ==
    /\ aPc = "awaitDeals"
    /\ aDealResponse' = [ok |-> FALSE]
    /\ aPc' = "done"
    /\ aResult' = DealsError
    /\ UNCHANGED <<aArgs, aRequests, aPending, aResults, aServed, aOvertaken, aSummary,
                   aDealQuery, whereVars, fetchVars, dedupVars, listVars, apiVars, toolVars, pageVars>>

\* resolveStageName and fetchCompaniesByIds have returned, neither throws
\* (lines 152-219); stages and companies are what they got from the remote
Enriched ==
    /\ aPc = "awaitEnrich"
    /\ \E stages \in {JNull, StageMapOf(RemoteStages)},
          companies \in {JMap(<<>>), CompanyMapOf(RemoteCompanies)} :
          LET deals == aDealResponse.response.data.a
              stageNames == [i \in 1..Len(deals) |-> StageNameOf(stages, deals[i].stage)]
          IN  aResult' = DealList(aArgs, deals, stageNames, companies, aSummary, aResults)
    /\ aPc' = "done"
    /\ UNCHANGED <<aArgs, aRequests, aPending, aResults, aServed, aOvertaken, aSummary,
                   aDealQuery, aDealResponse, whereVars, fetchVars, dedupVars, listVars,
                   apiVars, toolVars, pageVars>>

NextDeals ==
    \/ WorkspaceResolved
    \/ WorkspaceFailure
    \/ SourceResponse
    \/ SourceFailure
    \/ DealsResponse
    \/ DealsFailure
    \/ Enriched

SpecDeals == InitDeals /\ [][NextDeals]_vars

(***************************************************************************)
(* Failure isolation of the source streams                                 *)
(***************************************************************************)
\* every source request of the handler has settled
AllSettled == Len(aServed) > 0 /\ \A i \in 1..Len(aServed) : aServed[i] # JUndef

\* what the sources whose request succeeded resolved to, in the order of
\* activeSources
Succeeded ==
    LET ok == SelectSeq([i \in 1..Len(aServed) |-> i], LAMBDA i : aServed[i].ok)
    IN  [j \in 1..Len(ok) |->
            SourceResult(ActiveSources(aArgs)[ok[j]], aServed[ok[j]].response)]

\* C13: whatever subset of the source requests fails, a failed source
\* contributes no records, the per-company summary is the one computed from
\* the sources that succeeded alone, and the handler returns an error only
\* when the deals request that follows fails.
C13_FailureIsolation ==
    AllSettled =>
        /\ \A i \in 1..Len(aServed) :
              ~aServed[i].ok => aResults[i] = SkippedSource(ActiveSources(aArgs)[i])
        /\ aSummary = companySummaries(Succeeded)
        /\ aPc \in {"awaitDeals", "awaitEnrich", "done"}
        /\ (aPc = "done" /\ aResult.isError) => aDealResponse = [ok |-> FALSE]

\* two of the four sources failed and the deals of the other two are listed
C13_Witness ==
    /\ aPc = "done" /\ Len(aServed) = 4
    /\ aServed[1].ok /\ aServed[2].ok /\ ~aServed[3].ok /\ ~aServed[4].ok
    /\ aResult.kind = "deals" /\ Len(aResult.items) > 0
    /\ \E i \in 1..Len(aSummary) : aSummary[i].v.activities > 0 /\ aSummary[i].v.emails > 0

(***************************************************************************)
(* The per-company summary                                                 *)
(***************************************************************************)
\* the source promises are joined and the summary is built
SourcesJoined ==
    \/ aPc \in {"awaitDeals", "awaitEnrich"}
    \/ aPc = "done" /\ (aDealResponse # JUndef \/ ~aResult.isError)

\* the company ids the remote knows of, and one it does not
CompanyIds == {JStr("co-1"), JStr("co-2"), JStr("co-3"), JStr("co-9")}

\* the places of the returned records that carry company k: source result i,
\* record r, position j of its companyIds array
Carriers(k) ==
    {p \in (1..Len(aResults)) \X (1..MaxStream + 1) \X (1..2) :
        /\ p[2] <= Len(aResults[p[1]].data.a)
        /\ LET c == GetKey(aResults[p[1]].data.a[p[2]].o, "companyIds")
           IN  c.t = "arr" /\ p[3] <= Len(c.a) /\ c.a[p[3]] = k}

\* the time-field values of the returned records that carry k
DatesOf(k) ==
    {GetKey(aResults[p[1]].data.a[p[2]].o, SOURCE_DATE_FIELDS(aResults[p[1]].source)) :
        p \in Carriers(k)} \ {JUndef}

\* C14: for every company id k and source s the counter of s in the summary
\* of k is the number of occurrences of k in the companyIds arrays of the
\* records stream s returned, lastActivity of k is the greatest time-field
\* value of the records of any stream that carry k, and k is a key of the
\* summary exactly when some returned record carries k.
C14_SummaryCounts ==
    SourcesJoined =>
        \A k \in CompanyIds :
            /\ HasKey(aSummary, k) <=> Carriers(k) # {}
            /\ Cardinality({i \in 1..Len(aSummary) : aSummary[i].k = k}) <= 1
            /\ HasKey(aSummary, k) =>
                  LET summary == GetKey(aSummary, k)
                  IN  /\ \A s \in {SOURCES[n] : n \in 1..Len(SOURCES)} :
                            summary[summaryKey(s)] =
                               Cardinality({p \in Carriers(k) : aResults[p[1]].source = s})
                      /\ IF DatesOf(k) = {} THEN summary.lastActivity = JUndef
                         ELSE /\ summary.lastActivity \in DatesOf(k)
                              /\ \A d \in DatesOf(k) : ~Greater(d, summary.lastActivity)

\* a company counted three times by two activities and dated by the later
\* of them, beside a company whose only record has no date
C14_Witness ==
    /\ SourcesJoined
    /\ HasKey(aSummary, JStr("co-1")) /\ HasKey(aSummary, JStr("co-3"))
    /\ GetKey(aSummary, JStr("co-1")).activities = 3
    /\ GetKey(aSummary, JStr("co-1")).lastActivity = Stamp("5", "0", "9")
    /\ GetKey(aSummary, JStr("co-3")).lastActivity = JUndef

(***************************************************************************)
(* The order of the deal list                                              *)
(***************************************************************************)
\* the handler has returned the deal list
DealsListed == aPc = "done" /\ aResult.kind = "deals"

\* the position of a deal in the answer to the deals request
FetchedAt(deal) ==
    CHOOSE i \in 1..Len(aDealResponse.response.data.a) :
        aDealResponse.response.data.a[i] = deal

\* C15: the deals are listed by non-increasing lastActivity of their
\* summary, a missing lastActivity counting as the empty string, and two
\* deals of equal lastActivity, both missing included, are listed in the
\* order in which the deals request returned them.
C15_SortedStable ==
    DealsListed =>
        \A i \in 1..Len(aResult.items) : \A j \in 1..Len(aResult.items) :
            i < j =>
               /\ ~Greater(DateOf(aResult.items[j]), DateOf(aResult.items[i]))
               /\ DateOf(aResult.items[i]) = DateOf(aResult.items[j]) =>
                     FetchedAt(aResult.items[i].deal) < FetchedAt(aResult.items[j].deal)

\* three deals of one date before two deals without a date, each group in
\* the order of a response that lists the deals from d-7 down to d-1
C15_Witness ==
    /\ DealsListed
    /\ aDealResponse.response.data.a = Reverse(RemoteDeals)
    /\ [i \in 1..Len(aResult.items) |-> aResult.items[i].deal.id]
          = <<"d-4", "d-3", "d-2", "d-7", "d-1">>
    /\ DateOf(aResult.items[3]) = Stamp("4", "1", "0")
    /\ DateOf(aResult.items[4]) = JChars(<<>>)

(***************************************************************************)
(* The join of the source streams                                          *)
(***************************************************************************)
\* what the sources resolved to, by the position of the source in
\* activeSources, from what the remote answered each of them
ByStream ==
    [i \in 1..Len(aServed) |->
        IF aServed[i].ok THEN SourceResult(ActiveSources(aArgs)[i], aServed[i].response)
        ELSE SkippedSource(ActiveSources(aArgs)[i])]

DealIds(items) == [i \in 1..Len(items) |-> items[i].deal.id]

\* C16: the summary, the deals request, the listed order of the deals and
\* the statistics of the sources are determined by what each source was
\* answered, whatever the order in which the source requests completed.
C16_OrderIndependent ==
    SourcesJoined =>
        LET summaries == companySummaries(ByStream)
        IN  /\ aResults = ByStream
            /\ aSummary = summaries
            /\ aDealQuery = IF Len(summaries) = 0 THEN JUndef
                            ELSE DealRequest(aArgs, JStr("ws-1"), summaries)
            /\ (aPc = "done" /\ aResult.kind = "noActivity") =>
                   aResult = NoActivity(aArgs, ByStream)
            /\ DealsListed =>
                   LET deals == aDealResponse.response.data.a
                       sorted == SortedDeals(deals, [i \in 1..Len(deals) |-> JUndef],
                                             summaries)
                   IN  /\ aResult.stats = SourceStats(ByStream)
                       /\ DealIds(aResult.items) = DealIds(sorted)
                       /\ \A i \in 1..Len(sorted) :
                             aResult.items[i].summary = sorted[i].summary

\* all four sources answered, one of them before a source sent earlier, and
\* the deals are listed
C16_Witness ==
    /\ DealsListed /\ aOvertaken
    /\ Len(aServed) = 4 /\ \A i \in 1..4 : aServed[i].ok
    /\ Len(aSummary) = 3 /\ aSummary[1].k = JStr("co-1") /\ aSummary[3].k = JStr("co-3")
    /\ Len(aResult.items) > 1

(***************************************************************************)
(* An empty set of companies                                               *)
(***************************************************************************)
\* the number of records the remote returned to source request i
Returned(i) == IF aServed[i].ok THEN Len(OrElse(aServed[i].response.data, JArr(<<>>)).a) ELSE 0

\* C17: when every source request has settled and no returned record carries
\* a company id, every source having failed included, the handler sends no
\* deals request and returns a message that is not an error and lists every
\* queried source with the number of records it returned.
C17_NoCompanies ==
    (AllSettled /\ \A k \in CompanyIds : Carriers(k) = {}) =>
        /\ aPc = "done"
        /\ aDealQuery = JUndef /\ aDealResponse = JUndef
        /\ ~aResult.isError /\ aResult.kind = "noActivity"
        /\ aResult.checked = [i \in 1..Len(aServed) |->
                                 [source |-> ActiveSources(aArgs)[i],
                                  records |-> Returned(i)]]

\* three sources failed and issues returned a record whose companyIds is
\* not an array
C17_Witness ==
    /\ aPc = "done" /\ Len(aServed) = 4
    /\ \A i \in 1..3 : ~aServed[i].ok
    /\ aServed[4].ok /\ Returned(4) = 1
    /\ aResult.kind = "noActivity"

(***************************************************************************)
(* fetchCompaniesByIds                                                     *)
(***************************************************************************)
\* the call of op has returned or thrown
HasReturned(op) == sPc = "returned" /\ sCall.op = op

\* the requests of the call to a path
RequestsTo(path) == SelectSeq(sRequests, LAMBDA r : r.path = path)

\* the ids a companies request asks for: where.id.$in
AskedCompanies(request) ==
    GetKey(GetKey(GetKey(request.query.o, "where").j.o, "id").o, "$in").a

\* the call got a workspace id: from the cache, or from its own request
WorkspaceKnown ==
    \/ Truthy(sCall.workspaceId)
    \/ /\ Len(RequestsTo("/api/workspaces")) = 1
       /\ RequestsTo("/api/workspaces")[1].answer.ok
       /\ ~WorkspaceFrom(RequestsTo("/api/workspaces")[1].answer.body,
                         env.ZERO_WORKSPACE_NAME).threw

C19_Workspace ==
    HasReturned("ensureWorkspaceId") =>
        IF Truthy(sCall.workspaceId)
        THEN /\ sRequests = <<>>
             /\ sOut = [threw |-> FALSE, value |-> sCall.workspaceId]
             /\ cachedWorkspaceId = sCall.workspaceId
        ELSE IF NoApiKey
        THEN sRequests = <<>> /\ sOut.threw /\ cachedWorkspaceId = JNull
        ELSE /\ Len(sRequests) = 1 /\ sRequests[1].path = "/api/workspaces"
             /\ IF ~sRequests[1].answer.ok
                THEN sOut.threw /\ cachedWorkspaceId = JNull
                ELSE LET list == DataOrBody(sRequests[1].answer.body)
                         name == env.ZERO_WORKSPACE_NAME
                         named == {i \in 1..Len(list.a) :
                                      name # JUndef /\ GetKey(list.a[i].o, "name") = name}
                     IN  IF list.t # "arr" \/ list = JArr(<<>>)
                         THEN sOut.threw /\ cachedWorkspaceId = JNull
                         ELSE \E i \in 1..Len(list.a) :
                                 /\ IF named # {} THEN i \in named /\ \A j \in named : i <= j
                                    ELSE i = 1
                                 /\ sOut = [threw |-> FALSE,
                                            value |-> GetKey(list.a[i].o, "id")]
                                 /\ cachedWorkspaceId = GetKey(list.a[i].o, "id")

\* the second of three workspaces is the first named Main, the preferred
\* name: its id is returned and cached
C19_Witness ==
    /\ HasReturned("ensureWorkspaceId")
    /\ sCall.workspaceId = JNull
    /\ env.ZERO_WORKSPACE_NAME = JStr("Main")
    /\ Len(sRequests) = 1 /\ sRequests[1].answer.ok
    /\ sRequests[1].answer.body.t = "arr" /\ Len(sRequests[1].answer.body.a) = 3
    /\ sOut = [threw |-> FALSE, value |-> JStr("ws-1")]
    /\ cachedWorkspaceId = JStr("ws-1")

(***************************************************************************)
(* resolveStageName                                                        *)
(***************************************************************************)
\* the stage map the call read: the cached one, or the one it built from the
\* answer to its stages request; JNull when it had neither
StagesRead ==
    IF sCall.stages # JNull THEN sCall.stages
    ELSE LET lookups == RequestsTo("/api/pipelineStages")
         IN  IF Len(lookups) = 1 /\ lookups[1].answer # JUndef /\ lookups[1].answer.ok
                /\ ~StageMapFrom(lookups[1].answer.body).threw
             THEN StageMapFrom(lookups[1].answer.body).map
             ELSE JNull

\* resolveStageName never throws, returns the name of the id when the id is
\* in the stage map and the id as it was given otherwise, and leaves the
\* cache unpopulated when the fetch fails: the statement as the spec has it
C20_NameOrGivenId ==
    HasReturned("resolveStageName") =>
        /\ ~sOut.threw
        /\ sOut.value = IF StagesRead # JNull /\ HasKey(StagesRead.m, sCall.arg)
                        THEN GetKey(StagesRead.m, sCall.arg) ELSE sCall.arg
        /\ (sCall.stages = JNull /\ StagesRead = JNull) => cachedPipelineStages = JNull

\* C20: resolveStageName never throws; for a missing or empty id it returns
\* 'N/A' without a request; for any other id it returns the name of the id
\* when the cached or freshly fetched stage map has a non-empty name for it,
\* and the id as it was given otherwise (id not in the map, name empty,
\* workspace resolution failed, stage fetch failed); a failed fetch leaves
\* the stage cache unpopulated.
C20_StageName ==
    HasReturned("resolveStageName") =>
        /\ ~sOut.threw
        /\ IF sCall.arg \in {JUndef, JStr("")}
           THEN sOut.value = JStr("N/A") /\ sRequests = <<>>
           ELSE sOut.value =
                   IF /\ StagesRead # JNull
                      /\ HasKey(StagesRead.m, sCall.arg)
                      /\ GetKey(StagesRead.m, sCall.arg) # JStr("")
                   THEN GetKey(StagesRead.m, sCall.arg) ELSE sCall.arg
        /\ cachedPipelineStages = StagesRead \/ sCall.arg \in {JUndef, JStr("")}
        /\ (sCall.stages = JNull /\ StagesRead = JNull) => cachedPipelineStages = JNull

\* the stage of a deal without a stage: 'N/A', and nothing was requested
C20_Witness ==
    /\ HasReturned("resolveStageName")
    /\ sCall.arg = JUndef /\ sCall.stages = JNull
    /\ sOut = [threw |-> FALSE, value |-> JStr("N/A")]
    /\ sRequests = <<>>

(***************************************************************************)
(* C21: stage cache, no request while it is populated                      *)
(***************************************************************************)
\* the call in progress or last returned is resolveStageName of a stage id,
\* and it found the stage cache populated
FoundStagesCached ==
    /\ sCall # JUndef
    /\ sCall.op = "resolveStageName"
    /\ Truthy(sCall.arg)
    /\ sCall.stages # JNull

\* this step sends a request for the pipeline stages
SendsStagesRequest ==
    /\ Len(sRequests') > 0
    /\ sRequests'[Len(sRequests')].path = "/api/pipelineStages"
    /\ sRequests'[Len(sRequests')].answer = JUndef
    /\ sPc' = "awaitLookup"
    /\ sPc # "awaitLookup"

\* C21: in a sequence of non-overlapping calls, a resolveStageName call that
\* finds the stage cache populated returns without sending any request,
\* whether or not its id is in the map, and a stages request is only ever
\* sent while the cache is empty, so that between the population of the cache
\* and its clearing no bulk stage fetch happens.
C21_CachedNoRequest ==
    /\ [](FoundStagesCached =>
             (sPc \notin {"awaitWorkspaces", "awaitLookup"} /\ sRequests = <<>>))
    /\ [][SendsStagesRequest => cachedPipelineStages = JNull]_vars

\* a second or later call asks for an id that is absent from the populated
\* map and returns without a request
C21_Witness ==
    /\ FoundStagesCached
    /\ sCalls >= 2
    /\ sCall.arg = JStr("st-9")
    /\ sPc = "returned"
    /\ sRequests = <<>>
    /\ cachedPipelineStages # JNull

(***************************************************************************)
(* Tool calls that overlap: the workspace tools, zero_list_pipeline_stages *)
(* and the services they share state with.  A call runs from one await of  *)
(* a request to the next without interruption; between two such stretches  *)
(* any other call may start or go on.  zero_list_workspaces only reads the  *)
(* cached workspace id and is left out.                                    *)
(***************************************************************************)
\* what a call found when it started
Found == [workspaceId |-> cachedWorkspaceId, switched |-> tSwitched]

Task(call) ==
    [op |-> call.op, arg |-> call.arg, pc |-> "started", workspaceId |-> JUndef,
     answer |-> JUndef, out |-> JUndef, found |-> Found]

\* the call returns value
Done(task, value) ==
    [task EXCEPT !.pc = "returned", !.out = [isError |-> FALSE, value |-> value]]

\* the catch block of the call: resolveStageName returns the id (api.ts line
\* 171), a tool handler returns isError, ensureWorkspaceId throws
Caught(task) ==
    IF task.op = "resolveStageName" THEN Done(task, task.arg)
    ELSE [task EXCEPT !.pc = "returned", !.out = [isError |-> TRUE, value |-> JUndef]]

\* the call once ensureWorkspaceId has resolved: createApiClient and the
\* stages request (api.ts lines 158-162, pipeline stages tool lines 169-175)
AfterEnsure(task, workspaceId) ==
    IF task.op = "ensureWorkspaceId" THEN Done(task, workspaceId)
    ELSE IF NoApiKey THEN Caught(task)
    ELSE [task EXCEPT !.pc = "awaitStages", !.workspaceId = workspaceId]

\* await ensureWorkspaceId() up to its request (api.ts lines 204-209)
Ensure(task) ==
    IF Truthy(cachedWorkspaceId) THEN AfterEnsure(task, cachedWorkspaceId)
    ELSE IF NoApiKey THEN Caught(task)
    ELSE [task EXCEPT !.pc = "awaitWorkspaces"]

\* a workspace tool up to its request (workspace tools lines 11-13, 69-70,
\* 116-117)
RequestWorkspaces(task) ==
    IF NoApiKey THEN Caught(task) ELSE [task EXCEPT !.pc = "awaitWorkspaces"]

\* a call from its start to its first await or to its return
Begin(call) ==
    CASE call.op = "resolveStageName" ->
           IF ~Truthy(call.arg) THEN Done(Task(call), JStr("N/A"))
           ELSE IF CacheHit(cachedPipelineStages)
           THEN Done(Task(call), StageNameIn(cachedPipelineStages, call.arg))
           ELSE Ensure(Task(call))
      [] call.op \in {"ensureWorkspaceId", "zero_list_pipeline_stages"} ->
           Ensure(Task(call))
      [] OTHER -> RequestWorkspaces(Task(call))

\* String.prototype.toLowerCase on the workspace names in use
toLowerCase(name) ==
    CASE name = JStr("Main") -> JStr("main")
      [] name = JStr("Sales") -> JStr("sales")
      [] name = JStr("SALES") -> JStr("sales")
      [] OTHER -> name

\* workspaces.find(w => w.name.toLowerCase() === name.toLowerCase()) (line
\* 130), JUndef when there is none
FindTarget(workspaces, name) ==
    LET found == {i \in 1..Len(workspaces) :
                     toLowerCase(GetKey(workspaces[i].o, "name")) = toLowerCase(name)}
    IN  IF found = {} THEN JUndef
        ELSE workspaces[CHOOSE i \in found : \A j \in found : i <= j]

\* clearWorkspaceCaches() (api.ts lines 135-137, workspace tools line 145)
SwitchClears(stages) == JNull

\* the workspace tools read the list the same way (workspace tools lines
\* 14-23, 118-128): "none" for an empty list, "unreadable" for a body that is
\* not a list
WorkspaceList(body) ==
    LET workspaces == DataOrBody(body)
    IN  IF workspaces.t # "arr" THEN [kind |-> "unreadable"]
        ELSE IF Len(workspaces.a) = 0 THEN [kind |-> "none"]
        ELSE [kind |-> "list", a |-> workspaces.a]

(***************************************************************************)
(* Inputs of the overlapping tool calls                                    *)
(***************************************************************************)
MaxTasks == 3

TwoWorkspaces == <<Workspace("ws-1", "Main"), Workspace("ws-2", "Sales")>>

ToolWorkspaceBodies == {Wrapped(TwoWorkspaces), JArr(<<>>)}

ToolStageBodies ==
    {Wrapped(RemoteStages), Wrapped(<<Stage("st-1", "Lead"), JNull>>), JArr(<<>>)}

ToolCalls ==
    {[op |-> "resolveStageName", arg |-> JStr("st-1")]}
    \cup {[op |-> "zero_switch_workspace", arg |-> JStr("SALES")]}
    \cup {[op |-> op, arg |-> JUndef] :
             op \in {"ensureWorkspaceId", "zero_list_pipeline_stages",
                     "zero_get_workspace"}}

InitTools ==
    /\ WhereIdle /\ FetchIdle /\ DedupIdle /\ ListIdle /\ DealsIdle /\ ToolsIdle /\ PagesIdle
    /\ \E key \in {JUndef, JStr("key")} :
          env = [ZERO_API_KEY |-> key, ZERO_WORKSPACE_NAME |-> JUndef]
    /\ cachedWorkspaceId = JNull /\ cachedPipelineStages = JNull
    /\ sCall = JUndef /\ sPc = "idle" /\ sOut = JUndef /\ sRequests = <<>> /\ sCalls = 0

\* a tool or service call starts and runs to its first request or its return
StartCall ==
    /\ Len(tTasks) < MaxTasks
    /\ \E call \in ToolCalls : tTasks' = Append(tTasks, Begin(call))
    /\ UNCHANGED <<tStagesOf, tSwitched, apiVars, whereVars, fetchVars, dedupVars,
                   listVars, dealVars, pageVars>>

\* the workspaces request of ensureWorkspaceId is answered (api.ts lines
\* 210-229), inside resolveStageName, zero_list_pipeline_stages or a tool
EnsureResponse ==
    \E i \in 1..Len(tTasks), body \in ToolWorkspaceBodies :
       LET task == tTasks[i]
           workspace == WorkspaceFrom(body, env.ZERO_WORKSPACE_NAME)
       IN  /\ task.pc = "awaitWorkspaces"
           /\ task.op \in {"resolveStageName", "ensureWorkspaceId",
                           "zero_list_pipeline_stages"}
           /\ IF workspace.threw
              THEN /\ tTasks' = [tTasks EXCEPT ![i] = Caught(task)]
                   /\ UNCHANGED cachedWorkspaceId
              ELSE /\ cachedWorkspaceId' = workspace.id
                   /\ tTasks' = [tTasks EXCEPT ![i] = AfterEnsure(task, workspace.id)]
           /\ UNCHANGED <<env, cachedPipelineStages, sCall, sPc, sOut, sRequests, sCalls,
                          tStagesOf, tSwitched, whereVars, fetchVars, dedupVars,
                          listVars, dealVars, pageVars>>

\* zero_get_workspace from the answer on (workspace tools lines 14-51)
GetWorkspaceResponse ==
    \E i \in 1..Len(tTasks), body \in ToolWorkspaceBodies :
       LET task == tTasks[i]
           list == WorkspaceList(body)
           workspace == SelectWorkspace(list.a, env.ZERO_WORKSPACE_NAME)
       IN  /\ task.pc = "awaitWorkspaces" /\ task.op = "zero_get_workspace"
           /\ CASE list.kind = "unreadable" ->
                     /\ tTasks' = [tTasks EXCEPT ![i] = Caught(task)]
                     /\ UNCHANGED cachedWorkspaceId
                [] list.kind = "none" ->
                     /\ tTasks' = [tTasks EXCEPT ![i] = Done(task, JUndef)]
                     /\ UNCHANGED cachedWorkspaceId
                [] list.kind = "list" ->
                     /\ cachedWorkspaceId' = GetKey(workspace.o, "id")
                     /\ tTasks' = [tTasks EXCEPT ![i] = Done(task, GetKey(workspace.o, "id"))]
           /\ UNCHANGED <<env, cachedPipelineStages, sCall, sPc, sOut, sRequests, sCalls,
                          tStagesOf, tSwitched, whereVars, fetchVars, dedupVars,
                          listVars, dealVars, pageVars>>

\* zero_switch_workspace from the answer on (workspace tools lines 118-156)
SwitchResponse ==
    \E i \in 1..Len(tTasks), body \in ToolWorkspaceBodies :
       LET task == tTasks[i]
           list == WorkspaceList(body)
           target == FindTarget(list.a, task.arg)
       IN  /\ task.pc = "awaitWorkspaces" /\ task.op = "zero_switch_workspace"
           /\ IF list.kind = "list" /\ target # JUndef
              THEN /\ cachedWorkspaceId' = GetKey(target.o, "id")
                   /\ cachedPipelineStages' = SwitchClears(cachedPipelineStages)
                   /\ tStagesOf' = IF cachedPipelineStages' = JNull THEN JNull ELSE tStagesOf
                   /\ tSwitched' = GetKey(target.o, "id")
                   /\ tTasks' = [tTasks EXCEPT ![i] = Done(task, GetKey(target.o, "id"))]
              ELSE /\ tTasks' = [tTasks EXCEPT ![i] = Caught(task)]
                   /\ UNCHANGED <<cachedWorkspaceId, cachedPipelineStages, tStagesOf,
                                  tSwitched>>
           /\ UNCHANGED <<env, sCall, sPc, sOut, sRequests, sCalls, whereVars, fetchVars,
                          dedupVars, listVars, dealVars, pageVars>>

\* a workspaces request is rejected
WorkspacesRejected ==
    \E i \in 1..Len(tTasks) :
       /\ tTasks[i].pc = "awaitWorkspaces"
       /\ tTasks' = [tTasks EXCEPT ![i] = Caught(tTasks[i])]
       /\ UNCHANGED <<tStagesOf, tSwitched, apiVars, whereVars, fetchVars, dedupVars,
                      listVars, dealVars, pageVars>>

\* the stages request of resolveStageName is answered (api.ts lines 163-169)
ResolveResponse ==
    \E i \in 1..Len(tTasks), body \in ToolStageBodies :
       LET task == [tTasks[i] EXCEPT !.answer = body]
           stages == StageMapFrom(body)
       IN  /\ task.pc = "awaitStages" /\ task.op = "resolveStageName"
           /\ IF stages.threw
              THEN /\ tTasks' = [tTasks EXCEPT ![i] = Caught(task)]
                   /\ UNCHANGED <<cachedPipelineStages, tStagesOf>>
              ELSE /\ cachedPipelineStages' = stages.map
                   /\ tStagesOf' = task.workspaceId
                   /\ tTasks' = [tTasks EXCEPT ![i] =
                                    Done(task, StageNameIn(stages.map, task.arg))]
           /\ UNCHANGED <<env, cachedWorkspaceId, sCall, sPc, sOut, sRequests, sCalls,
                          tSwitched, whereVars, fetchVars, dedupVars, listVars, dealVars, pageVars>>

\* the stages request of zero_list_pipeline_stages is answered (pipeline
\* stages tool lines 176-207): the value is the number of stages listed
ListStagesResponse ==
    \E i \in 1..Len(tTasks), body \in ToolStageBodies :
       LET task == [tTasks[i] EXCEPT !.answer = body]
           stages == DataOrBody(body)
           stageMap == AddStages(<<>>, stages.a)
       IN  /\ task.pc = "awaitStages" /\ task.op = "zero_list_pipeline_stages"
           /\ IF stages.t # "arr" \/ Len(stages.a) = 0
              THEN /\ tTasks' = [tTasks EXCEPT ![i] = Done(task, JNum(0))]
                   /\ UNCHANGED <<cachedPipelineStages, tStagesOf>>
              ELSE IF stageMap.threw
              THEN /\ tTasks' = [tTasks EXCEPT ![i] = Caught(task)]
                   /\ UNCHANGED <<cachedPipelineStages, tStagesOf>>
              ELSE /\ cachedPipelineStages' = stageMap.map
                   /\ tStagesOf' = task.workspaceId
                   /\ tTasks' = [tTasks EXCEPT ![i] = Done(task, JNum(Len(stages.a)))]
           /\ UNCHANGED <<env, cachedWorkspaceId, sCall, sPc, sOut, sRequests, sCalls,
                          tSwitched, whereVars, fetchVars, dedupVars, listVars, dealVars, pageVars>>

\* a stages request is rejected
StagesRejected ==
    \E i \in 1..Len(tTasks) :
       /\ tTasks[i].pc = "awaitStages"
       /\ tTasks' = [tTasks EXCEPT ![i] = Caught(tTasks[i])]
       /\ UNCHANGED <<tStagesOf, tSwitched, apiVars, whereVars, fetchVars, dedupVars,
                      listVars, dealVars, pageVars>>

NextTools ==
    \/ StartCall
    \/ EnsureResponse
    \/ GetWorkspaceResponse
    \/ SwitchResponse
    \/ WorkspacesRejected
    \/ ResolveResponse
    \/ ListStagesResponse
    \/ StagesRejected

SpecTools == InitTools /\ [][NextTools]_vars

(***************************************************************************)
(* C22: the cached stage map belongs to the cached workspace               *)
(***************************************************************************)
\* C22: in every reachable state of the overlapping calls of
\* resolveStageName, zero_list_pipeline_stages, zero_get_workspace,
\* ensureWorkspaceId and zero_switch_workspace, a populated stage cache holds
\* the stages that were requested for the workspace id that is cached now.
C22_StagesOfCachedWorkspace ==
    cachedPipelineStages # JNull => tStagesOf = cachedWorkspaceId

(***************************************************************************)
(* C23: after a switch every call uses the switched-to workspace           *)
(***************************************************************************)
\* the call started after a zero_switch_workspace had succeeded
AfterSwitch(task) == task.found.switched # JNull

\* zero_get_workspace returned a workspace and no other switch succeeded
ReportsWorkspace(task) ==
    /\ task.op = "zero_get_workspace"
    /\ task.pc = "returned"
    /\ ~task.out.isError
    /\ task.out.value # JUndef
    /\ tSwitched = task.found.switched

\* C23: a call that starts after zero_switch_workspace succeeded for W finds
\* W as the cached workspace id, whatever calls ran in between, and
\* zero_get_workspace reports W as the workspace.
C23_SwitchedWorkspaceUsed ==
    \A i \in 1..Len(tTasks) :
       AfterSwitch(tTasks[i]) =>
          /\ tTasks[i].found.workspaceId = tTasks[i].found.switched
          /\ ReportsWorkspace(tTasks[i]) => tTasks[i].out.value = tTasks[i].found.switched

(***************************************************************************)
(* C27: overlapping resolveStageName calls                                 *)
(***************************************************************************)
\* the body is a list of stage records, all of them readable
Readable(body) ==
    /\ body # JUndef
    /\ DataOrBody(body).t = "arr"
    /\ \A k \in 1..Len(DataOrBody(body).a) : DataOrBody(body).a[k].t = "obj"

\* the map holds exactly the stages of the body, a later record of an id
\* replacing an earlier one
CompleteMapOf(map, body) ==
    LET list == DataOrBody(body).a
    IN  /\ map.t = "map"
        /\ Keys(map.m) = {GetKey(list[k].o, "id") : k \in 1..Len(list)}
        /\ \A k \in 1..Len(list) :
              (\A l \in (k + 1)..Len(list) :
                  GetKey(list[l].o, "id") # GetKey(list[k].o, "id"))
              => GetKey(map.m, GetKey(list[k].o, "id")) = GetKey(list[k].o, "name")
        /\ \A k, l \in 1..Len(map.m) : map.m[k].k = map.m[l].k => k = l

\* the readable answers the stage requests have had so far
StageAnswers == {tTasks[i].answer : i \in {j \in 1..Len(tTasks) : Readable(tTasks[j].answer)}}

\* the name the stages of the body give the id, the id itself without one
NameFrom(body, id) ==
    LET list == DataOrBody(body).a
        at == {k \in 1..Len(list) : GetKey(list[k].o, "id") = id}
        last == CHOOSE k \in at : \A l \in at : l <= k
    IN  IF at # {} /\ Truthy(GetKey(list[last].o, "name"))
        THEN GetKey(list[last].o, "name") ELSE id

Resolved(task) == task.op = "resolveStageName" /\ task.pc = "returned"

\* C27: with resolveStageName calls overlapping on an empty stage cache, every
\* call returns the name its id has in one whole answered stage list, or the
\* id itself; a call that read a whole list itself returns the name from that
\* list; and a populated cache equals the map of one whole answered list,
\* never part of a list or a mix of two.
C27_WholeMaps ==
    /\ cachedPipelineStages # JNull =>
          \E body \in StageAnswers : CompleteMapOf(cachedPipelineStages, body)
    /\ \A i \in 1..Len(tTasks) :
          Resolved(tTasks[i]) =>
             /\ ~tTasks[i].out.isError
             /\ IF tTasks[i].answer = JUndef
                THEN \/ tTasks[i].out.value = tTasks[i].arg
                     \/ \E body \in StageAnswers :
                           tTasks[i].out.value = NameFrom(body, tTasks[i].arg)
                ELSE IF Readable(tTasks[i].answer)
                THEN tTasks[i].out.value = NameFrom(tTasks[i].answer, tTasks[i].arg)
                ELSE tTasks[i].out.value = tTasks[i].arg

\* two calls overlapped on an empty cache, both fetched, the lists differed,
\* one call returned the name and the other the id, and the cache holds the
\* map of the list answered last
C27_Witness ==
    /\ Len(tTasks) >= 2
    /\ Resolved(tTasks[1]) /\ Resolved(tTasks[2])
    /\ Readable(tTasks[1].answer) /\ Readable(tTasks[2].answer)
    /\ tTasks[1].answer # tTasks[2].answer
    /\ tTasks[1].out.value = JStr("Qualified")
    /\ tTasks[2].out.value = tTasks[2].arg
    /\ cachedPipelineStages = JMap(<<>>)

(***************************************************************************)
(* C26: deduplication leaves its argument alone                            *)
(***************************************************************************)
\* C26: after deduplicateCalendarEvents has returned (and after a second call
\* on its result) the argument list holds the same event objects in the same
\* order, and every one of them has the field values it had when the call was
\* made, array fields included, the first record of a merged group too.
C26_InputUnchanged ==
    dRes # JUndef =>
       /\ dIn = [i \in 1..Len(dGiven) |-> i]
       /\ Deref(heap, dIn) = dGiven
       /\ \A j \in 1..Len(dRes.events) : \A i \in 1..Len(dIn) : dRes.events[j] # dIn[i]

\* the first given record has a duplicate whose contactIds it lacked: the
\* returned event holds the union, the given object still its own list
C26_Witness ==
    /\ dRes # JUndef /\ dRes.duplicatesRemoved > 0
    /\ Len(dIn) >= 2
    /\ IdentityKey(dGiven[2]) = IdentityKey(dGiven[1])
    /\ dFirst[1].contactIds # dGiven[1].contactIds
    /\ heap[dIn[1]].contactIds = dGiven[1].contactIds

(***************************************************************************)
(* C28: every listed deal carries the summary of its company               *)
(***************************************************************************)
\* the filter the deals request was sent with
SentDealWhere == GetKey(aDealQuery.query.o, "where").j.o

\* C28: whatever dealWhere the caller gave, one with a companyId condition
\* that replaces the $in filter included, and whatever deals the request
\* returned, every listed deal has a companyId that is a key of
\* companySummaries and is listed with the summary stored under that key.
C28_ListedDealsHaveSummary ==
    DealsListed =>
        \A i \in 1..Len(aResult.items) :
            /\ Truthy(aResult.items[i].deal.companyId)
            /\ HasKey(aSummary, aResult.items[i].deal.companyId)
            /\ aResult.items[i].summary = GetKey(aSummary, aResult.items[i].deal.companyId)
            /\ aResult.items[i].summary # JUndef

\* the caller's companyId condition stands in the request in place of the
\* $in filter, the response holds deals of that company, which has no summary,
\* and of companies that have one: only the latter are listed
C28_Witness ==
    /\ DealsListed
    /\ aArgs.dealWhere # JUndef
    /\ GetKey(aArgs.dealWhere.o, "companyId") = JStr("co-9")
    /\ GetKey(SentDealWhere, "companyId") = JStr("co-9")
    /\ ~HasKey(aSummary, JStr("co-9"))
    /\ \E k \in 1..Len(aDealResponse.response.data.a) :
          aDealResponse.response.data.a[k].companyId = JStr("co-9")
    /\ Len(aResult.items) > 0
    /\ \A i \in 1..Len(aResult.items) : aResult.items[i].deal.companyId # JStr("co-9")

(***************************************************************************)
(* C30: relation records of a merged event                                 *)
(***************************************************************************)
\* the ids the event lists under the foreign key of rel
IdsOf(event, rel) ==
    {OrEmptyArray(event[IdFieldOf(rel)])[j] :
        j \in 1..Len(OrEmptyArray(event[IdFieldOf(rel)]))}

\* the ids of the records attached to the event under rel
AttachedIds(event, rel) ==
    IF event[rel].t = "arr"
    THEN {event[rel].a[k].id : k \in 1..Len(event[rel].a)} ELSE {}

\* C30: under the fallback strategy with deduplication on, every displayed
\* event carries under contacts (companies) the looked-up record of every id
\* of its merged contactIds (companyIds) that the bulk lookup returned.
C30_MergedRelationsComplete ==
    (hPc = "done" /\ ~hResult.isError /\ hFallback /\ DedupEnabled(hArgs)) =>
        \A s \in hSettled :
            s.ok =>
               \A i \in 1..Len(hResult.displayEvents) :
                   (IdsOf(heap[hResult.displayEvents[i]], s.rel) \cap s.found)
                       \subseteq AttachedIds(heap[hResult.displayEvents[i]], s.rel)

(***************************************************************************)
(* The list handler called page after page (standard path)                 *)
(***************************************************************************)
\* validateStatus of the client: a response with this status resolves
validateStatus(status) == status < 600

AxiosError(status) == [kind |-> "AxiosError", status |-> status]

\* formatApiError (services/api.ts lines 96-133); the error is an AxiosError
\* with the status of its response, undefined when there was no response
formatApiError(error) ==
    IF error.kind = "AxiosError"
    THEN LET status == error.status
         IN  IF status = JNum(401)
             THEN "Authentication failed. Please check your API credentials."
             ELSE IF status = JNum(403)
             THEN "Access denied. You may not have permission for this workspace or resource."
             ELSE IF status = JNum(404)
             THEN "Resource not found. The requested item may have been deleted."
             ELSE IF status = JNum(422)
             THEN "Validation error"
             ELSE IF status = JNum(429)
             THEN "Rate limit exceeded. Please wait before making more requests."
             ELSE IF NumTruthy(status) /\ status.n >= 500
             THEN "Server error. Please try again later."
             ELSE "Request failed. Please check your input and try again."
    ELSE IF error.kind = "Error"
    THEN "An error occurred while processing your request."
    ELSE "An unknown error occurred"

\* the result of the handler's catch (lines 357-365)
CatchResult ==
    [isError |-> TRUE, displayEvents |-> <<>>, duplicatesRemoved |-> 0,
     truncated |-> FALSE, more |-> FALSE]

\* 2026-02-05T15:00
Time1500 == JChars(<<"2", "0", "2", "6", "-", "0", "2", "-", "0", "5", "T",
                     "1", "5", ":", "0", "0">>)
RecordLater ==
    Event(JStr("ev-C"), WeeklySync, Time1500, JUndef, JUndef, JUndef,
          JArr(<<"ct-3">>), JUndef, JUndef, JUndef, JUndef)

\* the remote's collection, in the order it lists it
PagedEvents == <<RecordA, RecordBSameMinute, RecordB, RecordPadded, RecordLater>>

\* the statuses the remote answers a list request with
PageStatuses == {200, 401, 500}
PageTotals == {JUndef, JNum(Len(PagedEvents))}

\* the records the remote returns for the limit and offset of a query
RemoteSlice(q) ==
    LET offset == QueryOffset(q)
        limit == FromDecimal(QueryLimit(q).d)
        last == IF offset + limit < Len(PagedEvents) THEN offset + limit
                ELSE Len(PagedEvents)
    IN  IF offset >= Len(PagedEvents) THEN <<>>
        ELSE SubSeq(PagedEvents, offset + 1, last)

\* the ids of the remote records this page displays or merges into a displayed
\* event
ShownNow ==
    IF hPc # "done" \/ hResult.isError THEN {}
    ELSE IF DedupEnabled(hArgs)
    THEN {heap[hEvents[i]].id :
             i \in {k \in 1..Len(hEvents) :
                       \E j \in 1..Len(hResult.displayEvents) :
                           EventKey(heap[hEvents[k]])
                               = EventKey(heap[hResult.displayEvents[j]])}}
    ELSE {heap[hResult.displayEvents[j]].id : j \in 1..Len(hResult.displayEvents)}

ArgLimit == {JNum(1), JNum(2)}
ArgOffset == {JUndef, JNum(1)}
ArgIncludeContacts == {JUndef, JArr(<<"contacts">>)}

\* the handler up to its list request (lines 163-188, 275-291)
InitPages ==
    /\ WhereIdle /\ FetchIdle /\ DedupIdle /\ DealsIdle /\ ApiIdle /\ ToolsIdle /\ PagesIdle
    /\ \E l \in ArgLimit, o \in ArgOffset, i \in ArgIncludeContacts, d \in ArgDeduplicate :
          hArgs = [where |-> JUndef, orderBy |-> JUndef, include |-> i, fields |-> JUndef,
                   excludeNullDates |-> JUndef, fetchAll |-> JUndef, deduplicate |-> d,
                   limit |-> l, offset |-> o]
    /\ hWhere = EffectiveWhere(hArgs)
    /\ hFallback = UseIncludeFallback(hArgs, hWhere)
    /\ hFields = BaseFields(hArgs, hFallback)
    /\ hQuery = StandardQuery(hArgs, hWhere, hFields)
    /\ hPc = "awaitEvents"
    /\ hEvents = <<>> /\ hOffset = 0 /\ hHitCap = FALSE /\ hTotal = JUndef
    /\ hPending = {} /\ hLookups = <<>> /\ hSettled = {} /\ hResult = JUndef

\* the remote answers the list request with an HTTP status: a status the
\* client validates resolves, and the handler reads response.data.data || []
\* and response.data.total of its body, an error body having neither
\* (lines 291-356); any other status rejects into the catch (lines 357-365)
ListResponse ==
    /\ hPc = "awaitEvents"
    /\ \E status \in PageStatuses, total \in PageTotals :
          /\ pStatus' = JNum(status)
          /\ IF validateStatus(status)
             THEN LET page == IF status = 200 THEN RemoteSlice(hQuery) ELSE <<>>
                      h == heap \o [i \in 1..Len(page) |->
                                       Joined(page[i], GetKey(hQuery.o, "fields"))]
                      pageEvents == [i \in 1..Len(page) |-> Len(heap) + i]
                  IN  /\ AfterFetch(h, pageEvents, FALSE,
                                    IF status = 200 THEN total ELSE JUndef)
                      /\ UNCHANGED pMessage
             ELSE /\ hPc' = "done"
                  /\ hResult' = CatchResult
                  /\ pMessage' = JStr(formatApiError(AxiosError(JNum(status))))
                  /\ UNCHANGED <<heap, hEvents, hHitCap, hTotal, hPending, hLookups,
                                 hSettled>>
    /\ UNCHANGED <<hArgs, hWhere, hFallback, hFields, hQuery, hOffset, pShown>>
    /\ UNCHANGED <<dIn, dGiven, dRes, dFirst, dRes2, whereVars, fetchVars,
                   dealVars, apiVars, toolVars>>

\* the list request gets no response: axios rejects with an error that has no
\* response and the catch returns the error result (lines 357-365)
ListRejected ==
    /\ hPc = "awaitEvents"
    /\ hPc' = "done"
    /\ hResult' = CatchResult
    /\ pMessage' = JStr(formatApiError(AxiosError(JUndef)))
    /\ UNCHANGED <<hArgs, hWhere, hFallback, hFields, hQuery, hEvents, hOffset,
                   hHitCap, hTotal, hPending, hLookups, hSettled, pStatus, pShown>>
    /\ UNCHANGED <<dedupVars, whereVars, fetchVars, dealVars, apiVars, toolVars>>

\* the caller follows the note of the page: the handler is called again with
\* offset + limit (line 344)
NextPage ==
    /\ hPc = "done" /\ ~hResult.isError /\ hResult.more
    /\ hArgs' = [hArgs EXCEPT !.offset = JNum(Offset(hArgs) + Limit(hArgs))]
    /\ hQuery' = StandardQuery(hArgs', hWhere, hFields)
    /\ hPc' = "awaitEvents"
    /\ heap' = <<>>
    /\ hEvents' = <<>> /\ hHitCap' = FALSE /\ hTotal' = JUndef
    /\ hPending' = {} /\ hLookups' = <<>> /\ hSettled' = {} /\ hResult' = JUndef
    /\ pShown' = pShown \cup ShownNow
    /\ pStatus' = JUndef /\ pMessage' = JUndef
    /\ UNCHANGED <<hWhere, hFallback, hFields, hOffset>>
    /\ UNCHANGED <<dIn, dGiven, dRes, dFirst, dRes2, whereVars, fetchVars,
                   dealVars, apiVars, toolVars>>

NextPages == ListResponse \/ ListRejected \/ LookupResponse \/ LookupFailure \/ NextPage

SpecPages == InitPages /\ [][NextPages]_vars

(***************************************************************************)
(* C24: a list request answered with HTTP 401                              *)
(***************************************************************************)
\* C24: when the remote answers the list request with status 401 the handler
\* returns an error result (isError = true) whose text carries the
\* authentication-failure message, never an empty or successful listing.
C24_UnauthorizedIsError ==
    (hPc = "done" /\ pStatus = JNum(401)) =>
        /\ hResult.isError
        /\ pMessage = JStr(formatApiError(AxiosError(JNum(401))))

(***************************************************************************)
(* C25: over-fetch and trim of the standard path                           *)
(***************************************************************************)
\* the number of distinct identity keys among the fetched records
KeysFetched == Cardinality({EventKey(heap[hEvents[i]]) : i \in 1..Len(hEvents)})

\* C25: on the standard path the list request asks for 2 x limit records when
\* deduplication is enabled and for exactly limit records when deduplicate is
\* false; a page shows at most limit events, and when deduplication left more
\* than limit events the page carries the 'More results available' note.
C25_OverfetchAndTrim ==
    /\ hPc \in {"awaitEvents", "awaitIncludes", "done"} =>
          FromDecimal(QueryLimit(hQuery).d)
              = IF hArgs.deduplicate = JBool(FALSE) THEN hArgs.limit.n
                ELSE 2 * hArgs.limit.n
    /\ (hPc = "done" /\ ~hResult.isError) =>
          /\ Len(hResult.displayEvents) <= hArgs.limit.n
          /\ (hArgs.deduplicate # JBool(FALSE) /\ KeysFetched > hArgs.limit.n) =>
                /\ Len(hResult.displayEvents) = hArgs.limit.n
                /\ hResult.more

\* a page of limit 2 that fetched four records, merged two of them and was
\* trimmed from three events to two
C25_Witness ==
    /\ hPc = "done" /\ ~hResult.isError
    /\ hArgs.deduplicate = JUndef /\ hArgs.limit = JNum(2)
    /\ Len(hEvents) = 4 /\ KeysFetched = 3
    /\ hResult.duplicatesRemoved = 1
    /\ Len(hResult.displayEvents) = 2
    /\ hResult.more

(***************************************************************************)
(* C29: following the next-page offset                                     *)
(***************************************************************************)
\* C29: with deduplication enabled, a caller who follows the offset of the
\* note (offset + limit) page after page never gets on a page a remote record,
\* displayed or merged into a displayed event, that an earlier page showed.
C29_NoRecordTwice ==
    (hPc = "done" /\ ~hResult.isError /\ DedupEnabled(hArgs)) =>
        ShownNow \cap pShown = {}

(***************************************************************************)
(* Inputs of the filter normaliser                                         *)
(***************************************************************************)
MaxOps == 3

WhereFields == {"startTime", "name"}

FilterOps == {"$gte", "$lte", "$lt", "$between", "$in"}

OpValues(op) ==
    CASE op = "$gte" -> {JStr("2026-02-02")}
      [] op = "$lte" -> {JStr("2026-02-08"), JNull}
      [] op = "$lt" -> {JStr("2026-02-10"), JNull}
      [] op = "$between" -> {JArr(<<JStr("2026-01-01"), JStr("2026-01-31")>>)}
      [] OTHER -> {JArr(<<JStr("a")>>)}

\* the objects of exactly n operators, in every key order
RECURSIVE ObjectsOfSize(_)
ObjectsOfSize(n) ==
    IF n = 0 THEN {<<>>}
    ELSE UNION {
             UNION {{Append(o, Prop(op, v)) : v \in OpValues(op)} :
                       op \in FilterOps \ Keys(o)}
             : o \in ObjectsOfSize(n - 1)}

ObjectConditions == UNION {{JObj(o) : o \in ObjectsOfSize(n)} : n \in 0..MaxOps}

Conditions ==
    ObjectConditions \cup {JStr("open"), JNull, JArr(<<JStr("a"), JStr("b")>>)}

\* a where object of one or two fields
WhereOf(f, c, g, d) ==
    IF g = f THEN JObj(<<Prop(f, c)>>) ELSE JObj(<<Prop(f, c), Prop(g, d)>>)

InitWhere ==
    /\ FetchIdle /\ DedupIdle /\ ListIdle /\ DealsIdle /\ ApiIdle /\ ToolsIdle /\ PagesIdle
    /\ \E f \in WhereFields, g \in WhereFields, c \in Conditions, d \in Conditions :
          /\ g = f => d = c
          /\ bqParams = ListParams(JStr("ws-1"), WhereOf(f, c, g, d),
                                   JUndef, JUndef, JUndef, JUndef)
    /\ bqQuery = JUndef

BuildQuery ==
    /\ bqQuery = JUndef
    /\ bqParams # JUndef
    /\ bqQuery' = buildQueryParams(bqParams)
    /\ UNCHANGED <<bqParams, fetchVars, dedupVars, listVars,
                   dealVars, apiVars, toolVars, pageVars>>

SpecWhere == InitWhere /\ [][BuildQuery]_vars

\* the where object given to buildQueryParams and the one its query carries
WhereGiven == bqParams.where.o
WhereSent == GetKey(bqQuery.o, "where").j.o

IsRange(c) ==
    c.t = "obj" /\ HasKey(c.o, "$gte") /\ (HasKey(c.o, "$lte") \/ HasKey(c.o, "$lt"))

\* s is the serialized form the claim allows for the condition c
NormalisedAs(c, s) ==
    IF IsRange(c)
    THEN /\ s.t = "obj"
         /\ Cardinality({j \in 1..Len(s.o) : s.o[j].k = "$between"}) = 1
         /\ \E hi \in {GetKey(c.o, k) : k \in Keys(c.o) \cap {"$lte", "$lt"}} :
               /\ GetKey(s.o, "$between") = JArr(<<GetKey(c.o, "$gte"), hi>>)
               /\ (HasKey(c.o, "$lte") /\ GetKey(c.o, "$lte") # JNull)
                     => hi = GetKey(c.o, "$lte")
         /\ Keys(s.o) \cap BoundOps = {}
         /\ Keys(s.o) = (Keys(c.o) \ BoundOps) \cup {"$between"}
         /\ \A k \in Keys(c.o) \ (BoundOps \cup {"$between"}) :
               GetKey(s.o, k) = GetKey(c.o, k)
    ELSE s = c

\* C1: every top-level range condition ($gte with $lte or $lt) is sent as
\* exactly one $between pair [low, high] without $gte/$lte/$lt and with its
\* other operators kept; a lone $gte and every non-object condition is sent
\* unchanged; fields keep their names and order.
C1_BetweenNormalised ==
    bqQuery # JUndef =>
        /\ Len(WhereSent) = Len(WhereGiven)
        /\ \A i \in 1..Len(WhereGiven) :
              /\ WhereSent[i].k = WhereGiven[i].k
              /\ NormalisedAs(WhereGiven[i].v, WhereSent[i].v)

\* a range with $lte null, an $lt bound and another operator was normalised,
\* next to a field with a lone $gte
C1_Witness ==
    /\ bqQuery # JUndef
    /\ Len(WhereGiven) = 2
    /\ \E i, j \in 1..2 :
          /\ IsRange(WhereGiven[i].v)
          /\ Keys(WhereGiven[i].v.o) = {"$gte", "$lt", "$in"}
          /\ Keys(WhereSent[i].v.o) = {"$between", "$in"}
          /\ WhereGiven[j].v = JObj(<<Prop("$gte", JStr("2026-02-02"))>>)
          /\ WhereSent[j].v = WhereGiven[j].v
====
